---- MODULE Spec2Model ----
(***************************************************************************)
(* Model of the route-share codec and the location-code (geohash) codec of *)
(* src/src/utils/routeUtils.js, of the grid-reference and destination      *)
(* functions of src/unnamed/part_002 and of calculateRelativeBearing of     *)
(* src/src/hooks/useCompass.js.                                            *)
(*                                                                         *)
(* JavaScript values are tagged records; strings are sequences of          *)
(* character codes; a finite number is Num(n, e) = n * 10^-e; a thrown     *)
(* exception is the value Throw.                                           *)
(***************************************************************************)
EXTENDS Integers, Sequences, FiniteSets, TLC

\* ------------------------------------------------------------------------
\* Bounds of the model
\* ------------------------------------------------------------------------
MaxCheckpoints == 2

\* most tiles of one caching run, when runs do not overlap
MaxTiles == 7

\* most caching runs started, and most tiles of each, when runs may overlap
MaxRuns == 2
MaxOverlapTiles == 2

\* ------------------------------------------------------------------------
\* JavaScript values
\* ------------------------------------------------------------------------
Undef == [t |-> "undef"]
Null == [t |-> "null"]
NaN == [t |-> "nan"]
Throw == [t |-> "throw"]
Num(n, e) == [t |-> "num", n |-> n, e |-> e]
Str(s) == [t |-> "str", s |-> s]
Bool(b) == [t |-> "bool", b |-> b]
Obj(f) == [t |-> "obj", f |-> f]
Arr(a) == [t |-> "arr", a |-> a]
\* the array of n elements all equal to item, kept in this short form
Repeat(item, n) == [t |-> "rep", item |-> item, n |-> n]

AsSeq(f) == <<>> \o f

\* Array.isArray(v) and the elements of an array
IsArray(v) == v.t \in {"arr", "rep"}
Elements(v) == IF v.t = "rep" THEN AsSeq([i \in 1..v.n |-> v.item]) ELSE v.a

Pow10(k) ==
  CASE k = 0 -> 1 [] k = 1 -> 10 [] k = 2 -> 100 [] k = 3 -> 1000
    [] k = 4 -> 10000 [] k = 5 -> 100000 [] k = 6 -> 1000000
    [] k = 7 -> 10000000 [] k = 8 -> 100000000 [] OTHER -> 1000000000

\* property read: candidate.lat, snapshot.version, marker.position, ...
Get(v, k) ==
  IF v.t = "obj" /\ k \in DOMAIN v.f THEN v.f[k] ELSE Undef

\* a ?? b
Coalesce(a, b) ==
  IF a.t \in {"undef", "null"} THEN b ELSE a

\* Boolean(v) / !v
Truthy(v) ==
  CASE v.t \in {"undef", "null", "nan"} -> FALSE
    [] v.t = "num" -> v.n # 0
    [] v.t = "str" -> v.s # <<>>
    [] v.t = "bool" -> v.b
    [] OTHER -> TRUE

\* typeof v === 'object'
TypeofObject(v) == v.t \in {"obj", "arr", "rep", "null"}

\* typeof v === 'number'
TypeofNumber(v) == v.t \in {"num", "nan"}

\* ------------------------------------------------------------------------
\* Characters and strings
\* ------------------------------------------------------------------------
IsDigit(c) == c >= 48 /\ c <= 57

\* white space removed by String.prototype.trim (codes below 256)
JsWhiteSpace == {9, 10, 11, 12, 13, 32, 160}

Trim(s) ==
  LET n == Len(s)
      nonWs == {i \in 1..n : s[i] \notin JsWhiteSpace}
  IN IF n = 0 \/ (s[1] \notin JsWhiteSpace /\ s[n] \notin JsWhiteSpace) THEN s
     ELSE IF nonWs = {} THEN <<>>
     ELSE SubSeq(s, CHOOSE i \in nonWs : \A j \in nonWs : i <= j,
                    CHOOSE i \in nonWs : \A j \in nonWs : i >= j)

\* digits of a decimal literal s[i..j] read as an integer
RECURSIVE DigitsValue(_, _, _)
DigitsValue(s, i, j) ==
  IF j < i THEN 0 ELSE DigitsValue(s, i, j - 1) * 10 + (s[j] - 48)

\* end index of the run of digits that starts at i (i - 1 when there is none)
RECURSIVE DigitsEnd(_, _)
DigitsEnd(s, i) ==
  IF i <= Len(s) /\ IsDigit(s[i]) THEN DigitsEnd(s, i + 1) ELSE i - 1

\* decimal literal starting at i: [ok, v, i] with i the index after the
\* literal.  JSON grammar: -digits[.digits], no leading zero; Number(string)
\* (lenient) also takes a + sign, leading zeros, "5." and ".5".  Literals with
\* an exponent or a digit string of 2000000000 or more are outside the model.
ScanDecimal(s, i, lenient) ==
  LET neg == i <= Len(s) /\ s[i] = 45
      plus == lenient /\ i <= Len(s) /\ s[i] = 43
      a == IF neg \/ plus THEN i + 1 ELSE i
      b == DigitsEnd(s, a)
      hasDot == b + 1 <= Len(s) /\ s[b + 1] = 46
      c == IF hasDot THEN DigitsEnd(s, b + 2) ELSE b
      e == IF hasDot THEN c - (b + 1) ELSE 0
      int == DigitsValue(s, a, b)
      frac == IF hasDot THEN DigitsValue(s, b + 2, c) ELSE 0
      mag == int * Pow10(e) + frac
      wellFormed ==
        IF lenient THEN b >= a \/ (hasDot /\ e > 0)
        ELSE /\ b >= a
             /\ (b > a => s[a] # 48)
             /\ (hasDot => e > 0)
      digits == (b - a) + 1 + e
  IN IF ~wellFormed \/ digits > 10 \/ (digits = 10 /\ s[a] \notin {48, 49})
        \/ (c + 1 <= Len(s) /\ s[c + 1] \in {69, 101})
     THEN [ok |-> FALSE, v |-> NaN, i |-> i]
     ELSE [ok |-> TRUE, v |-> Num(IF neg THEN 0 - mag ELSE mag, e), i |-> c + 1]

\* Number(string): trims, "" is 0, a decimal literal is its value, else NaN
StringToNumber(s) ==
  LET t == Trim(s)
      r == ScanDecimal(t, 1, TRUE)
  IN IF t = <<>> THEN Num(0, 0)
     ELSE IF r.ok /\ r.i = Len(t) + 1 THEN r.v
     ELSE NaN

\* Number(v)
NumberOf(v) ==
  CASE v.t = "num" -> v
    [] v.t = "null" -> Num(0, 0)
    [] v.t = "bool" -> Num(IF v.b THEN 1 ELSE 0, 0)
    [] v.t = "str" -> StringToNumber(v.s)
    [] v.t = "arr" /\ v.a = <<>> -> Num(0, 0)
    [] OTHER -> NaN

\* ------------------------------------------------------------------------
\* Position validation
\* ------------------------------------------------------------------------
\* Math.round(x * 10^k) for x = Num(n, e); Math.round rounds half up
RoundScaled(x, k) ==
  IF x.e <= k THEN x.n * Pow10(k - x.e)
  ELSE (x.n + Pow10(x.e - k) \div 2) \div Pow10(x.e - k)

\* Math.round(number * 1e6) / 1e6
ClampPrecision(x) == Num(RoundScaled(x, 6), 6)

IsFiniteNumber(v) == v.t = "num"

LessThan(x, deg) == x.n < deg * Pow10(x.e)
GreaterThan(x, deg) == x.n > deg * Pow10(x.e)

\* normalisePosition from the two conversions on: the finiteness and range
\* tests and the rounding
NormaliseLatLng(lat, lng) ==
  IF ~IsFiniteNumber(lat) \/ ~IsFiniteNumber(lng) THEN Null
  ELSE IF LessThan(lat, -90) \/ GreaterThan(lat, 90)
          \/ LessThan(lng, -180) \/ GreaterThan(lng, 180) THEN Null
  ELSE Obj([lat |-> ClampPrecision(lat), lng |-> ClampPrecision(lng)])

NormalisePosition(candidate) ==
  IF ~Truthy(candidate) \/ ~TypeofObject(candidate) THEN Null
  ELSE NormaliseLatLng(NumberOf(Get(candidate, "lat")),
                       NumberOf(Get(candidate, "lng")))

\* ------------------------------------------------------------------------
\* Route share snapshots
\* ------------------------------------------------------------------------
ROUTE_SHARE_VERSION == 1
ROUTE_SHARE_SCALE == 5

StrRoute == <<114, 111, 117, 116, 101>>
StrDirect == <<100, 105, 114, 101, 99, 116>>

NormaliseRouteShareSnapshot(snapshot) ==
  IF ~Truthy(snapshot) \/ ~TypeofObject(snapshot) THEN Null
  ELSE LET v == Get(snapshot, "version")
           version == IF TypeofNumber(v) THEN v ELSE Num(ROUTE_SHARE_VERSION, 0)
           cps == Get(snapshot, "checkpoints")
       IN IF ~(version.t = "num" /\ version.n = ROUTE_SHARE_VERSION * Pow10(version.e))
          THEN Null
          ELSE Obj([version |-> Num(ROUTE_SHARE_VERSION, 0),
                    connectVia |-> IF Get(snapshot, "connectVia") = Str(StrRoute)
                                   THEN Str(StrRoute) ELSE Str(StrDirect),
                    start |-> NormalisePosition(Get(snapshot, "start")),
                    end |-> NormalisePosition(Get(snapshot, "end")),
                    checkpoints |->
                      IF IsArray(cps)
                      THEN LET given == Elements(cps)
                           IN Arr(SelectSeq(AsSeq([i \in 1..Len(given) |->
                                                     NormalisePosition(given[i])]),
                                            Truthy))
                      ELSE Arr(<<>>)])

\* marker?.position ?? marker ?? null
MarkerPosition(marker) ==
  Coalesce(Coalesce(IF marker.t \in {"undef", "null"} THEN Undef
                    ELSE Get(marker, "position"), marker), Null)

\* the object that buildRouteShareSnapshot hands to
\* normaliseRouteShareSnapshot
MarkerSnapshot(route) ==
  LET cps == Get(route, "checkpoints")
  IN Obj([version |-> Num(ROUTE_SHARE_VERSION, 0),
          connectVia |-> Get(route, "connectVia"),
          start |-> MarkerPosition(Get(route, "start")),
          end |-> MarkerPosition(Get(route, "end")),
          checkpoints |->
            IF IsArray(cps)
            THEN LET given == Elements(cps)
                 IN Arr(AsSeq([i \in 1..Len(given) |-> MarkerPosition(given[i])]))
            ELSE Arr(<<>>)])

\* the emptiness test, forgetting the checkpoints
AbsentIfEmpty_IgnoreCheckpoints(snapshot) ==
  IF ~Truthy(snapshot) THEN Null
  ELSE IF ~Truthy(snapshot.f.start) /\ ~Truthy(snapshot.f.end) THEN Null
  ELSE snapshot

\* if (!snapshot) return null; if (no start, no end, no checkpoint) return
\* null; return snapshot
AbsentIfEmpty(snapshot) ==
  IF ~Truthy(snapshot) THEN Null
  ELSE IF ~Truthy(snapshot.f.start) /\ ~Truthy(snapshot.f.end)
          /\ Len(snapshot.f.checkpoints.a) = 0 THEN Null
  ELSE snapshot

BuildRouteShareSnapshot(route) ==
  AbsentIfEmpty(NormaliseRouteShareSnapshot(MarkerSnapshot(route)))

\* ------------------------------------------------------------------------
\* base64 (btoa / atob) and the URL-safe variant
\* ------------------------------------------------------------------------
\* character of the standard alphabet for a 6-bit value
Base64Char(v) ==
  IF v < 26 THEN 65 + v
  ELSE IF v < 52 THEN 71 + v
  ELSE IF v < 62 THEN v - 4
  ELSE IF v = 62 THEN 43 ELSE 47

\* 6-bit value of a character of the standard alphabet, -1 for any other
Base64Index(c) ==
  IF c >= 65 /\ c <= 90 THEN c - 65
  ELSE IF c >= 97 /\ c <= 122 THEN c - 71
  ELSE IF c >= 48 /\ c <= 57 THEN c + 4
  ELSE IF c = 43 THEN 62
  ELSE IF c = 47 THEN 63 ELSE -1

\* btoa(binary): padded standard base64; throws on a character above 255
Base64Encode(binary) ==
  LET n == Len(binary)
      at(i) == IF i <= n THEN binary[i] ELSE 0
  IN IF \E i \in 1..n : binary[i] > 255 THEN [ok |-> FALSE, s |-> <<>>]
     ELSE [ok |-> TRUE,
           s |-> AsSeq([j \in 1..(4 * ((n + 2) \div 3)) |->
                  LET g == (j - 1) \div 4
                      k == (j - 1) % 4
                  IN CASE k = 0 -> Base64Char(at(3*g + 1) \div 4)
                       [] k = 1 -> Base64Char((at(3*g + 1) % 4) * 16 + at(3*g + 2) \div 16)
                       [] k = 2 -> IF 3*g + 2 > n THEN 61
                                   ELSE Base64Char((at(3*g + 2) % 16) * 4 + at(3*g + 3) \div 64)
                       [] OTHER -> IF 3*g + 3 > n THEN 61
                                   ELSE Base64Char(at(3*g + 3) % 64)])]

AsciiWhiteSpace == {9, 10, 12, 13, 32}

\* atob(value): forgiving base64 decode; throws on a character outside the
\* alphabet or a length of 1 modulo 4
Base64Decode(value) ==
  LET stripped == SelectSeq(value, LAMBDA c : c \notin AsciiWhiteSpace)
      n == Len(stripped)
      pad == IF n > 0 /\ n % 4 = 0 /\ stripped[n] = 61
             THEN (IF stripped[n - 1] = 61 THEN 2 ELSE 1) ELSE 0
      m == n - pad
      sx(i) == IF i <= m THEN Base64Index(stripped[i]) ELSE 0
  IN IF m % 4 = 1 \/ \E i \in 1..m : Base64Index(stripped[i]) = -1
     THEN [ok |-> FALSE, s |-> <<>>]
     ELSE [ok |-> TRUE,
           s |-> AsSeq([k \in 1..((m * 6) \div 8) |->
                  LET g == (k - 1) \div 3
                      r == (k - 1) % 3
                  IN CASE r = 0 -> sx(4*g + 1) * 4 + sx(4*g + 2) \div 16
                       [] r = 1 -> (sx(4*g + 2) % 16) * 16 + sx(4*g + 3) \div 4
                       [] OTHER -> (sx(4*g + 3) % 4) * 64 + sx(4*g + 4)])]

\* value.replace(/=+$/g, '')
RECURSIVE StripPadding(_)
StripPadding(s) ==
  IF s # <<>> /\ s[Len(s)] = 61 THEN StripPadding(SubSeq(s, 1, Len(s) - 1)) ELSE s

ToBase64Url(bytes) ==
  LET base64 == Base64Encode(bytes).s
  IN StripPadding(AsSeq([i \in 1..Len(base64) |->
       IF base64[i] = 43 THEN 45 ELSE IF base64[i] = 47 THEN 95 ELSE base64[i]]))

FromBase64Url(code) ==
  LET normalised == AsSeq([i \in 1..Len(code) |->
        IF code[i] = 45 THEN 43 ELSE IF code[i] = 95 THEN 47 ELSE code[i]])
      n == Len(normalised)
      padding == IF n % 4 = 0 THEN <<>> ELSE [i \in 1..(4 - (n % 4)) |-> 61]
  IN Base64Decode(normalised \o padding)

\* ------------------------------------------------------------------------
\* Binary route share format
\* ------------------------------------------------------------------------
Pow256(k) ==
  CASE k = 0 -> 1 [] k = 1 -> 256 [] k = 2 -> 65536 [] OTHER -> 16777216

\* DataView.setInt32(.., v, false): byte k (0 first) of the two's complement
Int32Byte(v, k) ==
  LET m == IF v >= 0 THEN v ELSE (0 - v) - 1
      b == (m \div Pow256(3 - k)) % 256
  IN IF v >= 0 THEN b ELSE 255 - b

\* DataView.getInt32(offset, false), offset counted from 0
GetInt32(bytes, offset) ==
  LET b0 == bytes[offset + 1]
      b1 == bytes[offset + 2]
      b2 == bytes[offset + 3]
      b3 == bytes[offset + 4]
  IN IF b0 < 128 THEN b0 * 16777216 + b1 * 65536 + b2 * 256 + b3
     ELSE 0 - ((255 - b0) * 16777216 + (255 - b1) * 65536 + (255 - b2) * 256
               + (255 - b3)) - 1

\* DataView.getUint16(offset, false)
GetUint16(bytes, offset) == bytes[offset + 1] * 256 + bytes[offset + 2]

\* number of values of the 16-bit checkpoint count field
Uint16Range == 65536

\* the buffer that encodeBinaryRouteShare fills, before toBase64Url
RouteShareBuffer(normalised) ==
  LET hasStart == Truthy(normalised.f.start)
      hasEnd == Truthy(normalised.f.end)
      checkpointCount == Len(normalised.f.checkpoints.a)
      coordinateCount == (IF hasStart THEN 1 ELSE 0) + (IF hasEnd THEN 1 ELSE 0)
                         + checkpointCount
      flags == (IF hasStart THEN 1 ELSE 0) + (IF hasEnd THEN 2 ELSE 0)
      count16 == checkpointCount % Uint16Range  \* DataView.setUint16
      written == (IF hasStart THEN <<normalised.f.start>> ELSE <<>>)
                 \o normalised.f.checkpoints.a
                 \o (IF hasEnd THEN <<normalised.f.end>> ELSE <<>>)
  IN AsSeq([i \in 1..(5 + coordinateCount * 8) |->
       CASE i = 1 -> ROUTE_SHARE_VERSION
         [] i = 2 -> flags
         [] i = 3 -> IF normalised.f.connectVia = Str(StrRoute) THEN 1 ELSE 0
         [] i = 4 -> count16 \div 256
         [] i = 5 -> count16 % 256
         [] OTHER ->
              LET position == written[(i - 6) \div 8 + 1]
                  r == (i - 6) % 8
              IN IF r < 4
                 THEN Int32Byte(RoundScaled(position.f.lat, ROUTE_SHARE_SCALE), r)
                 ELSE Int32Byte(RoundScaled(position.f.lng, ROUTE_SHARE_SCALE), r - 4)])

EncodeBinaryRouteShare(normalised) == ToBase64Url(RouteShareBuffer(normalised))

\* readCoordinate() at the given offset: { lat, lng }
ReadCoordinate(bytes, offset) ==
  Obj([lat |-> Num(GetInt32(bytes, offset), ROUTE_SHARE_SCALE),
       lng |-> Num(GetInt32(bytes, offset + 4), ROUTE_SHARE_SCALE)])

\* the try block of decodeBinaryRouteShare without the comparison of
\* bytes.byteLength with offset + expectedBytes
TryDecodeBinaryRouteShare_NoLengthCheck(code) ==
  LET decoded == FromBase64Url(code)
      bytes == decoded.s
      version == bytes[1]
      flags == bytes[2]
      hasStart == flags % 2
      hasEnd == (flags \div 2) % 2
      checkpointCount == GetUint16(bytes, 3)
      expectedCoordinates == hasStart + hasEnd + checkpointCount
      expectedBytes == expectedCoordinates * 8
  IN IF ~decoded.ok THEN Throw
     ELSE IF Len(bytes) < 5 THEN Null
     ELSE IF version # ROUTE_SHARE_VERSION THEN Null
     ELSE IF Len(bytes) < 5 + expectedBytes THEN Throw  \* getInt32 RangeError
     ELSE Obj([version |-> Num(ROUTE_SHARE_VERSION, 0),
               connectVia |-> IF bytes[3] = 1 THEN Str(StrRoute) ELSE Str(StrDirect),
               start |-> IF hasStart = 1 THEN ReadCoordinate(bytes, 5) ELSE Null,
               end |-> IF hasEnd = 1
                       THEN ReadCoordinate(bytes, 5 + 8 * (hasStart + checkpointCount))
                       ELSE Null,
               checkpoints |-> Arr(AsSeq([i \in 1..checkpointCount |->
                 ReadCoordinate(bytes, 5 + 8 * (hasStart + i - 1))]))])

\* the body of the try block of decodeBinaryRouteShare: a snapshot, Null, or
\* Throw when fromBase64Url or a DataView read raises
TryDecodeBinaryRouteShare(code) ==
  LET decoded == FromBase64Url(code)
      bytes == decoded.s
      version == bytes[1]
      flags == bytes[2]
      hasStart == flags % 2
      hasEnd == (flags \div 2) % 2
      checkpointCount == GetUint16(bytes, 3)
      expectedCoordinates == hasStart + hasEnd + checkpointCount
      expectedBytes == expectedCoordinates * 8
  IN IF ~decoded.ok THEN Throw
     ELSE IF Len(bytes) < 5 THEN Null
     ELSE IF version # ROUTE_SHARE_VERSION THEN Null
     ELSE IF Len(bytes) # 5 + expectedBytes THEN Null
     ELSE IF Len(bytes) < 5 + expectedBytes THEN Throw  \* getInt32 RangeError
     ELSE Obj([version |-> Num(ROUTE_SHARE_VERSION, 0),
               connectVia |-> IF bytes[3] = 1 THEN Str(StrRoute) ELSE Str(StrDirect),
               start |-> IF hasStart = 1 THEN ReadCoordinate(bytes, 5) ELSE Null,
               end |-> IF hasEnd = 1
                       THEN ReadCoordinate(bytes, 5 + 8 * (hasStart + checkpointCount))
                       ELSE Null,
               checkpoints |-> Arr(AsSeq([i \in 1..checkpointCount |->
                 ReadCoordinate(bytes, 5 + 8 * (hasStart + i - 1))]))])

\* decodeBinaryRouteShare without its try/catch
DecodeBinaryRouteShare_NoCatch(code) == TryDecodeBinaryRouteShare(code)

\* try { ... } catch (error) { return null; }
DecodeBinaryRouteShare(code) ==
  LET result == TryDecodeBinaryRouteShare(code)
  IN IF result = Throw THEN Null ELSE result

EncodeRouteShare(snapshot) ==
  LET normalised == NormaliseRouteShareSnapshot(snapshot)
  IN IF ~Truthy(normalised) THEN <<>> ELSE EncodeBinaryRouteShare(normalised)

\* ------------------------------------------------------------------------
\* JSON.stringify / JSON.parse over the properties the codec reads
\* ------------------------------------------------------------------------
KnownKeys == <<"version", "connectVia", "start", "end", "checkpoints", "lat", "lng">>

KeyChars(k) ==
  CASE k = "version" -> <<118, 101, 114, 115, 105, 111, 110>>
    [] k = "connectVia" -> <<99, 111, 110, 110, 101, 99, 116, 86, 105, 97>>
    [] k = "start" -> <<115, 116, 97, 114, 116>>
    [] k = "end" -> <<101, 110, 100>>
    [] k = "checkpoints" -> <<99, 104, 101, 99, 107, 112, 111, 105, 110, 116, 115>>
    [] k = "lat" -> <<108, 97, 116>>
    [] OTHER -> <<108, 110, 103>>

StrNull == <<110, 117, 108, 108>>
StrTrue == <<116, 114, 117, 101>>
StrFalse == <<102, 97, 108, 115, 101>>

RECURSIVE DecimalDigits(_)
DecimalDigits(m) ==
  IF m < 10 THEN <<48 + m>> ELSE Append(DecimalDigits(m \div 10), 48 + (m % 10))

\* f written with exactly e digits
RECURSIVE PaddedDigits(_, _)
PaddedDigits(f, e) ==
  IF e = 0 THEN <<>> ELSE Append(PaddedDigits(f \div 10, e - 1), 48 + (f % 10))

RECURSIVE StripTrailingZeros(_)
StripTrailingZeros(s) ==
  IF s # <<>> /\ s[Len(s)] = 48 THEN StripTrailingZeros(SubSeq(s, 1, Len(s) - 1))
  ELSE s

\* Number.prototype.toString for magnitudes printed without an exponent
FormatNumber(x) ==
  LET mag == IF x.n < 0 THEN 0 - x.n ELSE x.n
      int == mag \div Pow10(x.e)
      frac == StripTrailingZeros(PaddedDigits(mag % Pow10(x.e), x.e))
  IN (IF x.n < 0 THEN <<45>> ELSE <<>>) \o DecimalDigits(int)
     \o (IF frac = <<>> THEN <<>> ELSE <<46>> \o frac)

RECURSIVE JsonStringify(_), StringifyMembers(_, _, _), StringifyElements(_, _)
JsonStringify(v) ==
  CASE v.t = "num" -> FormatNumber(v)
    [] v.t = "str" -> <<34>> \o v.s \o <<34>>
    [] v.t = "bool" -> IF v.b THEN StrTrue ELSE StrFalse
    [] IsArray(v) -> <<91>> \o StringifyElements(Elements(v), 1) \o <<93>>
    [] v.t = "obj" -> <<123>> \o StringifyMembers(v.f, 1, TRUE) \o <<125>>
    [] OTHER -> StrNull

\* members in property order; a property holding undefined is left out
StringifyMembers(f, k, first) ==
  IF k > Len(KnownKeys) THEN <<>>
  ELSE IF KnownKeys[k] \notin DOMAIN f \/ f[KnownKeys[k]] = Undef
       THEN StringifyMembers(f, k + 1, first)
  ELSE (IF first THEN <<>> ELSE <<44>>)
       \o <<34>> \o KeyChars(KnownKeys[k]) \o <<34, 58>>
       \o JsonStringify(f[KnownKeys[k]])
       \o StringifyMembers(f, k + 1, FALSE)

StringifyElements(a, i) ==
  IF i > Len(a) THEN <<>>
  ELSE (IF i = 1 THEN <<>> ELSE <<44>>) \o JsonStringify(a[i])
       \o StringifyElements(a, i + 1)

JsonWhiteSpace == {9, 10, 13, 32}

RECURSIVE SkipWs(_, _)
SkipWs(s, i) ==
  IF i <= Len(s) /\ s[i] \in JsonWhiteSpace THEN SkipWs(s, i + 1) ELSE i

\* index of the quote closing the string whose first character is at i; 0
\* when there is none (or an escape or control character, outside the model)
RECURSIVE StringEnd(_, _)
StringEnd(s, i) ==
  IF i > Len(s) \/ s[i] < 32 \/ s[i] = 92 THEN 0
  ELSE IF s[i] = 34 THEN i
  ELSE StringEnd(s, i + 1)

HasLiteral(s, i, lit) ==
  i + Len(lit) - 1 <= Len(s) /\ SubSeq(s, i, i + Len(lit) - 1) = lit

KeyIndex(chars) ==
  {k \in 1..Len(KnownKeys) : KeyChars(KnownKeys[k]) = chars}

ParseFail(i) == [ok |-> FALSE, v |-> Throw, i |-> i]

RECURSIVE ParseValue(_, _), ParseMembers(_, _, _), ParseElements(_, _, _)
ParseValue(s, start) ==
  LET i == SkipWs(s, start)
  IN IF i > Len(s) THEN ParseFail(i)
     ELSE CASE s[i] = 123 ->
                 LET j == SkipWs(s, i + 1)
                 IN IF j <= Len(s) /\ s[j] = 125
                    THEN [ok |-> TRUE, v |-> Obj(<<>>), i |-> j + 1]
                    ELSE ParseMembers(s, j, <<>>)
            [] s[i] = 91 ->
                 LET j == SkipWs(s, i + 1)
                 IN IF j <= Len(s) /\ s[j] = 93
                    THEN [ok |-> TRUE, v |-> Arr(<<>>), i |-> j + 1]
                    ELSE ParseElements(s, j, <<>>)
            [] s[i] = 34 ->
                 LET j == StringEnd(s, i + 1)
                 IN IF j = 0 THEN ParseFail(i)
                    ELSE [ok |-> TRUE, v |-> Str(SubSeq(s, i + 1, j - 1)), i |-> j + 1]
            [] HasLiteral(s, i, StrNull) -> [ok |-> TRUE, v |-> Null, i |-> i + 4]
            [] HasLiteral(s, i, StrTrue) -> [ok |-> TRUE, v |-> Bool(TRUE), i |-> i + 4]
            [] HasLiteral(s, i, StrFalse) -> [ok |-> TRUE, v |-> Bool(FALSE), i |-> i + 5]
            [] OTHER ->
                 LET r == ScanDecimal(s, i, FALSE)
                 IN IF r.ok THEN r ELSE ParseFail(i)

\* "key" : value { , "key" : value } '}' with i at the first key
ParseMembers(s, i, f) ==
  IF i > Len(s) \/ s[i] # 34 THEN ParseFail(i)
  ELSE LET q == StringEnd(s, i + 1)
           c == SkipWs(s, q + 1)
       IN IF q = 0 \/ c > Len(s) \/ s[c] # 58 THEN ParseFail(i)
          ELSE LET r == ParseValue(s, c + 1)
                   keys == KeyIndex(SubSeq(s, i + 1, q - 1))
                   g == IF keys = {} THEN f
                        ELSE (KnownKeys[CHOOSE k \in keys : TRUE] :> r.v) @@ f
                   j == SkipWs(s, r.i)
               IN IF ~r.ok \/ j > Len(s) THEN ParseFail(i)
                  ELSE IF s[j] = 125 THEN [ok |-> TRUE, v |-> Obj(g), i |-> j + 1]
                  ELSE IF s[j] = 44 THEN ParseMembers(s, SkipWs(s, j + 1), g)
                  ELSE ParseFail(j)

\* value { , value } ']' with i at the first value
ParseElements(s, i, a) ==
  LET r == ParseValue(s, i)
      j == SkipWs(s, r.i)
  IN IF ~r.ok \/ j > Len(s) THEN ParseFail(i)
     ELSE IF s[j] = 93 THEN [ok |-> TRUE, v |-> Arr(Append(a, r.v)), i |-> j + 1]
     ELSE IF s[j] = 44 THEN ParseElements(s, j + 1, Append(a, r.v))
     ELSE ParseFail(j)

\* JSON.parse(text): the value, or Throw for a SyntaxError
JsonParse(text) ==
  LET r == ParseValue(text, 1)
  IN IF r.ok /\ SkipWs(text, r.i) = Len(text) + 1 THEN r.v ELSE Throw

\* ------------------------------------------------------------------------
\* decodeRouteShare
\* ------------------------------------------------------------------------
\* the legacy attempt returning what JSON.parse gave, not normalised
DecodeLegacyRouteShare_NotNormalised(trimmed) ==
  LET decoded == Base64Decode(trimmed)
      parsed == IF decoded.ok THEN JsonParse(decoded.s) ELSE Throw
  IN IF parsed = Throw THEN Null ELSE parsed

\* lines 227-232: the legacy attempt, with its catch
DecodeLegacyRouteShare(trimmed) ==
  LET decoded == Base64Decode(trimmed)
      parsed == IF decoded.ok THEN JsonParse(decoded.s) ELSE Throw
  IN IF parsed = Throw THEN Null ELSE NormaliseRouteShareSnapshot(parsed)

\* the result, with the binary path's result and whether line 227 was reached
DecodeRouteShareTrace(code) ==
  IF code.t # "str"
  THEN [result |-> Null, binaryResult |-> Undef, legacy |-> FALSE]
  ELSE LET trimmed == Trim(code.s)
           binaryResult == IF trimmed = <<>> THEN Undef
                           ELSE DecodeBinaryRouteShare(trimmed)
       IN IF trimmed = <<>>
          THEN [result |-> Null, binaryResult |-> Undef, legacy |-> FALSE]
          ELSE IF binaryResult = Throw
          THEN [result |-> Throw, binaryResult |-> Throw, legacy |-> FALSE]
          ELSE IF Truthy(binaryResult)
          THEN [result |-> NormaliseRouteShareSnapshot(binaryResult),
                binaryResult |-> binaryResult, legacy |-> FALSE]
          ELSE [result |-> DecodeLegacyRouteShare(trimmed),
                binaryResult |-> binaryResult, legacy |-> TRUE]

DecodeRouteShare(code) == DecodeRouteShareTrace(code).result

\* ------------------------------------------------------------------------
\* Location codes (geohash)
\* ------------------------------------------------------------------------
\* '0123456789bcdefghjkmnpqrstuvwxyz'
GEOHASH_BASE32 ==
  <<48, 49, 50, 51, 52, 53, 54, 55, 56, 57, 98, 99, 100, 101, 102, 103,
    104, 106, 107, 109, 110, 112, 113, 114, 115, 116, 117, 118, 119, 120,
    121, 122>>

\* the bit weights taken least significant first
GEOHASH_BITS_Reversed == <<1, 2, 4, 8, 16>>

GEOHASH_BITS == <<16, 8, 4, 2, 1>>

\* widths of the longitude and latitude ranges, in 1e-6 degrees
LngSpan == 360000000
LatSpan == 180000000

\* A range [min, max] reached by repeated halving is the sequence of the
\* halves kept (1 upper, 0 lower).  The encoder's test "coordinate >= mid" is
\* evaluated exactly on rem = (coordinate - min) * 2^(number of halvings):
\* coordinate >= (min + max) / 2  iff  2 * rem >= span.

\* precision < bound / precision > bound for a number or NaN
NumLess(x, k) == x.t = "num" /\ x.n < k * Pow10(x.e)
NumGreater(x, k) == x.t = "num" /\ x.n > k * Pow10(x.e)

\* the loop body with the new character put in front of hash
EncodeLocationStep_Prepend(st) ==
  LET rem == IF st.evenBit THEN st.remLng ELSE st.remLat
      span == IF st.evenBit THEN LngSpan ELSE LatSpan
      upper == 2 * rem >= span
      rem2 == IF upper THEN 2 * rem - span ELSE 2 * rem
      character == IF upper THEN st.character + GEOHASH_BITS[st.bit + 1]
                   ELSE st.character
      last == ~(st.bit < Len(GEOHASH_BITS) - 1)
  IN [remLng |-> IF st.evenBit THEN rem2 ELSE st.remLng,
      remLat |-> IF st.evenBit THEN st.remLat ELSE rem2,
      lng |-> IF st.evenBit THEN Append(st.lng, IF upper THEN 1 ELSE 0) ELSE st.lng,
      lat |-> IF st.evenBit THEN st.lat ELSE Append(st.lat, IF upper THEN 1 ELSE 0),
      evenBit |-> ~st.evenBit,
      bit |-> IF last THEN 0 ELSE st.bit + 1,
      character |-> IF last THEN 0 ELSE character,
      hash |-> IF last THEN <<GEOHASH_BASE32[character + 1]>> \o st.hash
               ELSE st.hash]

\* one pass of the body of the while loop of encodeLocationCode
EncodeLocationStep(st) ==
  LET rem == IF st.evenBit THEN st.remLng ELSE st.remLat
      span == IF st.evenBit THEN LngSpan ELSE LatSpan
      upper == 2 * rem >= span
      rem2 == IF upper THEN 2 * rem - span ELSE 2 * rem
      character == IF upper THEN st.character + GEOHASH_BITS[st.bit + 1]
                   ELSE st.character
      last == ~(st.bit < Len(GEOHASH_BITS) - 1)
  IN [remLng |-> IF st.evenBit THEN rem2 ELSE st.remLng,
      remLat |-> IF st.evenBit THEN st.remLat ELSE rem2,
      lng |-> IF st.evenBit THEN Append(st.lng, IF upper THEN 1 ELSE 0) ELSE st.lng,
      lat |-> IF st.evenBit THEN st.lat ELSE Append(st.lat, IF upper THEN 1 ELSE 0),
      evenBit |-> ~st.evenBit,
      bit |-> IF last THEN 0 ELSE st.bit + 1,
      character |-> IF last THEN 0 ELSE character,
      hash |-> IF last THEN Append(st.hash, GEOHASH_BASE32[character + 1])
               ELSE st.hash]

\* while (hash.length < precision) { ... }
RECURSIVE EncodeLocationLoop(_, _)
EncodeLocationLoop(st, precision) ==
  IF ~(precision.t = "num" /\ Len(st.hash) * Pow10(precision.e) < precision.n)
  THEN st
  ELSE EncodeLocationLoop(EncodeLocationStep(st), precision)

\* the loop state when encodeLocationCode returns (position valid)
EncodeLocationState(normalised, precision) ==
  EncodeLocationLoop([remLng |-> normalised.f.lng.n + LngSpan \div 2,
                      remLat |-> normalised.f.lat.n + LatSpan \div 2,
                      lng |-> <<>>, lat |-> <<>>, evenBit |-> TRUE,
                      bit |-> 0, character |-> 0, hash |-> <<>>], precision)

\* encodeLocationCode(position, precision = 9): the code, Null, or Throw
EncodeLocationCode(position, precisionArg) ==
  LET precision == IF precisionArg = Undef THEN Num(9, 0) ELSE precisionArg
      normalised == NormalisePosition(position)
  IN IF ~TypeofNumber(precision) \/ NumLess(precision, 1) \/ NumGreater(precision, 12)
     THEN Throw
     ELSE IF ~Truthy(normalised) THEN Null
     ELSE Str(EncodeLocationState(normalised, precision).hash)

ToLowerCase(c) == IF c >= 65 /\ c <= 90 THEN c + 32 ELSE c

\* GEOHASH_BASE32.indexOf(character)
GeohashIndexOf(c) ==
  IF \E i \in 1..Len(GEOHASH_BASE32) : GEOHASH_BASE32[i] = c
  THEN (CHOOSE i \in 1..Len(GEOHASH_BASE32) : GEOHASH_BASE32[i] = c) - 1
  ELSE -1

\* the inner for loop of decodeLocationCode, from bit on
RECURSIVE DecodeLocationBits(_, _, _)
DecodeLocationBits(box, charIndex, bit) ==
  IF ~(bit < Len(GEOHASH_BITS)) THEN box
  ELSE LET upper == (charIndex \div GEOHASH_BITS[bit + 1]) % 2
       IN DecodeLocationBits(
            [lng |-> IF box.evenBit THEN Append(box.lng, upper) ELSE box.lng,
             lat |-> IF box.evenBit THEN box.lat ELSE Append(box.lat, upper),
             evenBit |-> ~box.evenBit, ok |-> TRUE],
            charIndex, bit + 1)

\* the outer for loop of decodeLocationCode, from index on
RECURSIVE DecodeLocationChars(_, _, _)
DecodeLocationChars(box, hash, index) ==
  IF ~box.ok \/ ~(index <= Len(hash)) THEN box
  ELSE LET charIndex == GeohashIndexOf(ToLowerCase(hash[index]))
       IN DecodeLocationChars(IF charIndex = -1 THEN [box EXCEPT !.ok = FALSE]
                              ELSE DecodeLocationBits(box, charIndex, 0),
                              hash, index + 1)

\* the ranges when the loops of decodeLocationCode end; ok is FALSE when a
\* character outside the alphabet made it return null
DecodeLocationBox(hash) ==
  DecodeLocationChars([lng |-> <<>>, lat |-> <<>>, evenBit |-> TRUE, ok |-> TRUE],
                      hash, 1)

\* (min + max) / 2 of a range: the lower end of its upper half
Midpoint(range) == [t |-> "num", halves |-> Append(range, 1)]

DecodeLocationCode(hash) ==
  IF hash.t # "str" \/ Len(hash.s) = 0 THEN Null
  ELSE LET box == DecodeLocationBox(hash.s)
       IN IF ~box.ok THEN Null
          ELSE Obj([lat |-> Midpoint(box.lat), lng |-> Midpoint(box.lng)])

\* ------------------------------------------------------------------------
\* Grid references and bearings (src/unnamed/part_002, the grid utilities)
\* ------------------------------------------------------------------------
\* the number Infinity
Infinity == [t |-> "inf"]

\* v == null
IsNullish(v) == v.t \in {"undef", "null"}

\* a === b for a value a and the integer b
StrictEqualsInt(a, b) == a.t = "num" /\ a.n = b * Pow10(a.e)

\* String(value)
JsString(value) ==
  CASE value.t = "str" -> value.s
    [] value.t = "num" -> FormatNumber(value)
    [] value.t = "bool" -> IF value.b THEN <<116, 114, 117, 101>>
                           ELSE <<102, 97, 108, 115, 101>>
    [] value.t = "nan" -> <<78, 97, 78>>
    [] value.t = "inf" -> <<73, 110, 102, 105, 110, 105, 116, 121>>
    [] value.t = "null" -> <<110, 117, 108, 108>>
    [] OTHER -> <<117, 110, 100, 101, 102, 105, 110, 101, 100>>

\* clampPrecision of the grid utilities: 3 and 4 pass, anything else throws
ClampGridPrecision_Loose(precision) ==
  IF precision.t = "num" /\ precision.n >= 3 * Pow10(precision.e) THEN precision
  ELSE Throw

ClampGridPrecision(precision) ==
  IF StrictEqualsInt(precision, 3) THEN Num(3, 0)
  ELSE IF StrictEqualsInt(precision, 4) THEN Num(4, 0)
  ELSE Throw

\* one grid unit taken as 100 m at either precision
PrecisionToUnitMeters_Hundred(precision) == 100

\* metres of one grid unit at a valid precision
PrecisionToUnitMeters(precision) ==
  IF StrictEqualsInt(precision, 3) THEN 100 ELSE 10

\* /^\d+$/.test(s)
AllDigits(s) == s # <<>> /\ \A i \in 1..Len(s) : IsDigit(s[i])

\* normaliseGridDigits: null for an absent or blank value, the integer for
\* a text of exactly `precision` digits once trimmed, a throw otherwise
NormaliseGridDigits(value, precision) ==
  IF IsNullish(value) THEN Null
  ELSE LET trimmed == Trim(JsString(value))
       IN IF trimmed = <<>> THEN Null
          ELSE IF ~AllDigits(trimmed) THEN Throw
          ELSE IF ~StrictEqualsInt(precision, Len(trimmed)) THEN Throw
          ELSE Num(DigitsValue(trimmed, 1, Len(trimmed)), 0)

\* Latitudes and longitudes of the grid utilities are finite numbers held
\* in units of 10^-7 degree (Num(n, 7)); offsets are whole metres and
\* distances on the ground whole millimetres.
Degrees7(x) == x.n * Pow10(7 - x.e)

\* x * f / 10^4 rounded to the nearest integer, for a factor f given times 10^4
ScaleE4(x, f) ==
  x * (f \div 10000)
  + ((x \div 1000) * (f % 10000) + ((x % 1000) * (f % 10000)) \div 1000 + 5) \div 10

\* Math.round(a / b) for integers a and b > 0: halves go up
RoundedQuotient(a, b) == (2 * a + b) \div (2 * b)

\* (1 / EARTH_RADIUS_METERS) * (180 / Math.PI): 10^-7 degrees of latitude
\* per metre north, times 10^4
LatitudePerMetre == 899322

\* (1 / (EARTH_RADIUS_METERS * Math.cos(latRad))) * 180 / Math.PI: 10^-7
\* degrees of longitude per metre east, times 10^4, at the latitudes of the
\* origins of this model
LongitudePerMetre(lat7) ==
  CASE lat7 = 0 -> 899322
    [] lat7 = 450000000 -> 1271833
    [] lat7 = 600000000 -> 1798643

\* Math.PI * EARTH_RADIUS_METERS / 180: millimetres north per 10^-7 degree
\* of latitude, times 10^4
MillimetresPerLatitude == 111195

\* Math.PI * EARTH_RADIUS_METERS * Math.cos(latRad) / 180: millimetres east
\* per 10^-7 degree of longitude, times 10^4
MillimetresPerLongitude(lat7) ==
  CASE lat7 = 0 -> 111195
    [] lat7 = 450000000 -> 78627
    [] lat7 = 600000000 -> 55597

\* projectOffset: the point eastOffset metres east and northOffset metres
\* north of the origin on the local flat grid
ProjectOffset(origin, eastOffset, northOffset) ==
  LET lat7 == Degrees7(Get(origin, "lat"))
      lng7 == Degrees7(Get(origin, "lng"))
  IN Obj([lat |-> Num(lat7 + ScaleE4(northOffset, LatitudePerMetre), 7),
          lng |-> Num(lng7 + ScaleE4(eastOffset, LongitudePerMetre(lat7)), 7)])

\* the body of gridReferenceToLatLng once the precision is resolved; in the
\* subtractions a null result of normaliseGridDigits counts as 0
GridOffsetPosition(origin, originReference, targetReference, resolvedPrecision) ==
  LET originEast == NormaliseGridDigits(Get(originReference, "easting"), resolvedPrecision)
      originNorth == NormaliseGridDigits(Get(originReference, "northing"), resolvedPrecision)
      targetEast == NormaliseGridDigits(Get(targetReference, "easting"), resolvedPrecision)
      targetNorth == NormaliseGridDigits(Get(targetReference, "northing"), resolvedPrecision)
      unitMeters == PrecisionToUnitMeters(resolvedPrecision)
      number(d) == IF d.t = "num" THEN d.n ELSE 0
  IN IF Throw \in {originEast, originNorth, targetEast, targetNorth} THEN Throw
     ELSE ProjectOffset(origin,
                        (number(targetEast) - number(originEast)) * unitMeters,
                        (number(targetNorth) - number(originNorth)) * unitMeters)

\* gridReferenceToLatLng({origin, originReference, targetReference, precision})
GridReferenceToLatLng(args) ==
  LET origin == Get(args, "origin")
      originReference == Get(args, "originReference")
      targetReference == Get(args, "targetReference")
  IN IF ~Truthy(origin) \/ ~Truthy(originReference) THEN Throw
     ELSE LET resolvedPrecision ==
                ClampGridPrecision(
                  Coalesce(Coalesce(Coalesce(Get(args, "precision"),
                                             Get(originReference, "precision")),
                                    Get(targetReference, "precision")),
                           Num(3, 0)))
          IN IF resolvedPrecision = Throw \/ IsNullish(targetReference) THEN Throw
             ELSE GridOffsetPosition(origin, originReference, targetReference,
                                     resolvedPrecision)

\* pad: value.toString().padStart(figures, '0') for an integer or NaN
Pad(value, figures) ==
  LET text == IF value.t = "nan" THEN <<78, 97, 78>>
              ELSE IF value.n < 0 THEN <<45>> \o DecimalDigits(0 - value.n)
              ELSE DecimalDigits(value.n)
  IN IF Len(text) >= figures THEN text
     ELSE [i \in 1..(figures - Len(text)) |-> 48] \o text

\* Math.round(digit + millimetres / unitMillimetres) for the stored digit
\* of the origin reference: a number is added; a string is joined with the
\* text of the quotient and the result read back as a number, which is NaN
\* once the quotient carries a minus sign or the string is not a numeral
RoundedDigits(digit, millimetres, unitMillimetres) ==
  CASE digit.t = "num" ->
         Num(digit.n + RoundedQuotient(millimetres, unitMillimetres), 0)
    [] digit.t = "null" -> Num(RoundedQuotient(millimetres, unitMillimetres), 0)
    [] digit.t = "str" /\ AllDigits(digit.s) /\ millimetres >= 0 ->
         Num(DigitsValue(digit.s \o DecimalDigits(millimetres \div unitMillimetres),
                         1, Len(digit.s) + Len(DecimalDigits(millimetres \div unitMillimetres)))
             + (IF 2 * (millimetres % unitMillimetres) >= unitMillimetres THEN 1 ELSE 0), 0)
    [] OTHER -> NaN

\* the body of latLngToGridReference once the precision is resolved
GridDigitsOf(origin, originReference, point, resolvedPrecision) ==
  LET unitMillimetres == PrecisionToUnitMeters(resolvedPrecision) * 1000
      lat7 == Degrees7(Get(origin, "lat"))
      deltaNorth == ScaleE4(Degrees7(Get(point, "lat")) - lat7, MillimetresPerLatitude)
      deltaEast == ScaleE4(Degrees7(Get(point, "lng")) - Degrees7(Get(origin, "lng")),
                           MillimetresPerLongitude(lat7))
      eastDigits == RoundedDigits(Get(originReference, "easting"), deltaEast, unitMillimetres)
      northDigits == RoundedDigits(Get(originReference, "northing"), deltaNorth, unitMillimetres)
  IN Obj([easting |-> Str(Pad(eastDigits, resolvedPrecision.n)),
          northing |-> Str(Pad(northDigits, resolvedPrecision.n)),
          precision |-> resolvedPrecision])

\* latLngToGridReference({origin, originReference, point, precision})
LatLngToGridReference(args) ==
  LET origin == Get(args, "origin")
      originReference == Get(args, "originReference")
      point == Get(args, "point")
  IN IF ~Truthy(origin) \/ ~Truthy(originReference) THEN Throw
     ELSE LET resolvedPrecision ==
                ClampGridPrecision(
                  Coalesce(Coalesce(Get(args, "precision"),
                                    Get(originReference, "precision")),
                           Num(3, 0)))
          IN IF resolvedPrecision = Throw \/ IsNullish(point) THEN Throw
             ELSE GridDigitsOf(origin, originReference, point, resolvedPrecision)

\* normalizeLongitude, ((longitude + 540) % 360) - 180, on 10^-7 degrees;
\* longitude + 540 is not negative for a longitude reached from an origin
\* within [-180, 180]
NormalizeLongitude(lng7) ==
  ((((lng7 \div 10000000) + 540) % 360) - 180) * 10000000 + (lng7 % 10000000)

\* the point reached along a meridian or, from the equator, along the
\* equator: the spherical formula of destinationFromBearing at the four
\* cardinal bearings, where the angular distance is added to or taken from
\* one coordinate; bearings are whole degrees
CardinalDestination(origin, bearingDegrees, angular7) ==
  LET lat7 == Degrees7(Get(origin, "lat"))
      lng7 == Degrees7(Get(origin, "lng"))
      quarter == (bearingDegrees.n \div 90) % 4
  IN CASE quarter = 0 -> Obj([lat |-> Num(lat7 + angular7, 7),
                              lng |-> Num(NormalizeLongitude(lng7), 7)])
       [] quarter = 2 -> Obj([lat |-> Num(lat7 - angular7, 7),
                              lng |-> Num(NormalizeLongitude(lng7), 7)])
       [] quarter = 1 /\ lat7 = 0 ->
            Obj([lat |-> Num(0, 7), lng |-> Num(NormalizeLongitude(lng7 + angular7), 7)])
       [] quarter = 3 /\ lat7 = 0 ->
            Obj([lat |-> Num(0, 7), lng |-> Num(NormalizeLongitude(lng7 - angular7), 7)])

\* destinationFromBearing({origin, bearingDegrees, distanceMeters}): an
\* infinite bearing or distance passes the tests and the sines and cosines
\* of the formula turn both coordinates into NaN
DestinationFromBearing(args) ==
  LET origin == Get(args, "origin")
      bearingDegrees == Get(args, "bearingDegrees")
      distanceMeters == Get(args, "distanceMeters")
  IN IF ~Truthy(origin) THEN Throw
     ELSE IF IsNullish(bearingDegrees) \/ bearingDegrees = NaN THEN Throw
     ELSE IF IsNullish(distanceMeters) \/ distanceMeters = NaN
             \/ (distanceMeters.t = "num" /\ distanceMeters.n < 0) THEN Throw
     ELSE IF bearingDegrees = Infinity \/ distanceMeters = Infinity
          THEN Obj([lat |-> NaN, lng |-> NaN])
     ELSE CardinalDestination(origin, bearingDegrees,
                              ScaleE4(distanceMeters.n, LatitudePerMetre))

\* calculateRelativeBearing(heading, bearing) of the compass hook; the
\* remainder a % b of JavaScript takes the sign of a
CalculateRelativeBearing(heading, bearing) ==
  IF IsNullish(heading) \/ IsNullish(bearing) THEN Null
  ELSE IF heading.t # "num" \/ bearing.t # "num" THEN NaN
  ELSE LET e == IF heading.e > bearing.e THEN heading.e ELSE bearing.e
           a == bearing.n * Pow10(e - bearing.e)
                - heading.n * Pow10(e - heading.e) + 360 * Pow10(e)
           b == 360 * Pow10(e)
       IN Num(IF a >= 0 THEN a % b ELSE 0 - ((0 - a) % b), e)

\* ------------------------------------------------------------------------
\* State: one use of the route share codec, one of the location codec and
\* one call of a grid or bearing function
\* ------------------------------------------------------------------------
VARIABLES
  input,      \* argument of normaliseRouteShareSnapshot / buildRouteShareSnapshot
  made,       \* which of the two has returned a snapshot
  origin,     \* how the share code given to decodeRouteShare came about
  edit,       \* the edit made to an issued share code
  pasted,     \* a share code that was pasted
  pc,
  position,   \* arguments and results of the location code functions
  precision,
  hash,
  located,
  gpc,
  call,       \* entry point of the grid / bearing functions and its arguments
  answer,     \* what the call returned (Throw when it threw)
  back,       \* what converting the answer back returned
  kpc

\* State of the running application: its stores and the state of the
\* components that use them
VARIABLES
  gridStore,  \* useGridStore: origin, originReference, precision
  gridTools,  \* GridTools: the text inputs, resolvedLocation and messages
  routeStore, \* useCheckpointsStore: start, end, checkpoints, selectedId, ...
  routeOp     \* whether addCheckpoint, swapCheckpoints or another operation
              \* gave the store its state

VARIABLES
  baseLayer,  \* MapView: the baseLayer prop
  isCaching,  \* MapView: the isCaching state
  runs        \* the calls of handlePrefetchTiles made so far, each with its
              \* tileQueue, workers, successCount and errors

vars == <<input, made, origin, edit, pasted, pc,
          position, precision, hash, located, gpc,
          call, answer, back, kpc,
          gridStore, gridTools, routeStore, routeOp,
          baseLayer, isCaching, runs>>

shareVars == <<input, made, origin, edit, pasted, pc>>
geoVars == <<position, precision, hash, located, gpc>>
gridVars == <<call, answer, back, kpc>>
cacheVars == <<baseLayer, isCaching, runs>>
appVars == <<gridStore, gridTools, routeStore, routeOp, cacheVars>>

Position(lat, lng) == Obj([lat |-> lat, lng |-> lng])
Marker(id, pos) == Obj([id |-> Str(id), position |-> pos])

SeqsUpTo(S, n) == UNION {[1..k -> S] : k \in 0..n}

\* The values the operations are applied to: positions a snapshot may
\* carry, input snapshots and routes, pasted share codes, edits of issued
\* codes, and the arguments of the location code functions.
Inputs ==
  LET
    \* positions a snapshot may carry: valid ones (with digits beyond 1e-6 and
    \* ties of the 1e-5 rounding), the limits of the range, and invalid ones
    ValidA == Position(Num(450000004, 7), Num(-750000005, 7))
    ValidB == Position(Num(-12345675, 6), Num(12345675, 6))
    AtLimit == Position(Num(90, 0), Num(-180, 0))
    OutOfRange == Position(Num(0, 0), Num(1800000001, 7))
    LatNull == Position(Null, Num(10, 0))
    Numeric == Position(Str(<<52, 53>>), Str(<<45, 55, 53, 46, 53>>))
    NotFinite == Position(NaN, Num(10, 0))
    StartInputs == {Null, ValidA, Numeric}
    EndInputs == {Undef, AtLimit, NotFinite}
    CheckpointInputs == {ValidA, ValidB, OutOfRange, LatNull, Num(7, 0)}
    StrRouteCapital == <<82, 111, 117, 116, 101>>
    \* version and connectVia of the input snapshots
    HeaderInputs ==
      { [version |-> Undef, connectVia |-> Undef],
        [version |-> Num(1, 0), connectVia |-> Str(StrRoute)],
        [version |-> Num(2, 0), connectVia |-> Str(StrDirect)],
        [version |-> Str(<<50>>), connectVia |-> Str(StrRoute)],
        [version |-> Num(10, 1), connectVia |-> Str(StrRouteCapital)] }
    SnapshotInputs ==
      { Obj([version |-> h.version, connectVia |-> h.connectVia, start |-> s,
             end |-> e, checkpoints |-> Arr(AsSeq(c))]) :
          h \in HeaderInputs, s \in StartInputs, e \in EndInputs,
          c \in SeqsUpTo(CheckpointInputs, MaxCheckpoints) }
      \cup {Null, Num(1, 0), Arr(<<>>), Obj([checkpoints |-> Str(StrRoute)])}
    \* route states of the checkpoint store: markers { id, position }
    MarkerInputs ==
      { Marker(<<109>>, ValidA), Marker(<<109>>, ValidB), Marker(<<109>>, OutOfRange) }
    RouteInputs ==
      { Obj([start |-> s, end |-> e, checkpoints |-> Arr(AsSeq(c)), connectVia |-> v]) :
          s \in {Null, Marker(<<115, 116, 97, 114, 116>>, ValidA), Marker(<<115, 116, 97, 114, 116>>, OutOfRange)},
          e \in {Null, Marker(<<101, 110, 100>>, AtLimit), AtLimit},
          c \in SeqsUpTo(MarkerInputs, MaxCheckpoints),
          v \in {Str(StrDirect), Str(StrRoute)} }
    \* texts whose standard base64 form is pasted as a share code
    PastedTexts ==
      { <<104, 101, 108, 108, 111>>, <<91, 93>>, <<53>>, <<110, 117, 108, 108>>, <<34, 120, 34>>, <<123, 125>>,
        <<123, 34, 118, 101, 114, 115, 105, 111, 110, 34, 58, 50, 125>>, <<32, 123, 34, 115, 116, 97, 114, 116, 34, 58, 32, 123, 34, 108, 97, 116, 34, 58, 32, 49, 44, 32, 34, 108, 110, 103, 34, 58, 32, 50, 46, 53, 125, 32, 125, 32>>, <<123, 34, 115, 116, 97, 114, 116, 34, 58>> }
    PastedCodes ==
      { Undef, Null, Num(1, 0), Arr(<<>>), Str(<<>>), Str(<<32, 9, 10>>),
        Str(<<110, 111, 116, 45, 98, 97, 115, 101, 54, 52, 33, 33>>), Str(<<65>>), Str(<<65, 81>>), Str(<<65, 81, 32, 65, 65, 65, 65, 65>>) }
      \cup { Str(Base64Encode(text).s) : text \in PastedTexts }
    \* The same codec, also used on a route whose number of checkpoints is the
    \* first that the 16-bit count field cannot hold.
    LongSnapshot ==
      Obj([version |-> Num(ROUTE_SHARE_VERSION, 0), connectVia |-> Str(StrRoute),
           start |-> Null, end |-> Null,
           checkpoints |-> Repeat(ValidB, Uint16Range)])
    TamperKinds ==
      {"version", "truncate", "extend", "extend8", "count", "flags", "start",
       "range", "space", "pad", "standard"}
    \* ------------------------------------------------------------------------
    \* Location codes: encodeLocationCode then decodeLocationCode
    \* ------------------------------------------------------------------------
    GeoPositions ==
      { Position(Num(515, 1), Num(-12, 2)), Position(Num(-90, 0), Num(-180, 0)),
        Position(Num(90, 0), Num(180, 0)), Position(Num(0, 0), Num(0, 0)),
        Position(Num(225, 1), Num(45, 0)), Position(Num(5764911, 5), Num(1040744, 5)),
        ValidA, ValidB, Numeric,
        OutOfRange, Null }
    GeoPrecisions ==
      { Num(k, 0) : k \in -1..14 } \cup { Undef, Null, NaN, Num(25, 1), Str(<<57>>) }
    \* values handed to decodeLocationCode that encodeLocationCode did not make:
    \* non-strings, "", "a" and " ezs42" (characters outside the alphabet),
    \* "ezs42", "u4pruydqqvj" and its upper case, and codes of 12 and 13
    \* characters
    PastedHashes ==
      { Undef, Null, Num(5, 0), Str(<<>>), Str(<<97>>),
        Str(<<32, 101, 122, 115, 52, 50>>), Str(<<101, 122, 115, 52, 50>>),
        Str(<<117, 52, 112, 114, 117, 121, 100, 113, 113, 118, 106>>),
        Str(<<85, 52, 80, 82, 85, 89, 68, 81, 81, 86, 74>>),
        Str(<<48, 49, 50, 51, 52, 53, 54, 55, 56, 57, 98, 99>>),
        Str(<<48, 49, 50, 51, 52, 53, 54, 55, 56, 57, 98, 99, 100>>) }
  IN [ ValidA |-> ValidA,
       ValidB |-> ValidB,
       AtLimit |-> AtLimit,
       OutOfRange |-> OutOfRange,
       LatNull |-> LatNull,
       Numeric |-> Numeric,
       NotFinite |-> NotFinite,
       StartInputs |-> StartInputs,
       EndInputs |-> EndInputs,
       CheckpointInputs |-> CheckpointInputs,
       StrRouteCapital |-> StrRouteCapital,
       HeaderInputs |-> HeaderInputs,
       SnapshotInputs |-> SnapshotInputs,
       MarkerInputs |-> MarkerInputs,
       RouteInputs |-> RouteInputs,
       PastedTexts |-> PastedTexts,
       PastedCodes |-> PastedCodes,
       LongSnapshot |-> LongSnapshot,
       TamperKinds |-> TamperKinds,
       GeoPositions |-> GeoPositions,
       GeoPrecisions |-> GeoPrecisions,
       PastedHashes |-> PastedHashes ]



NoTrace == [result |-> Undef, binaryResult |-> Undef, legacy |-> FALSE]

\* initialState of useCheckpointsStore
RouteInitialState ==
  [start |-> Null, end |-> Null, checkpoints |-> Arr(<<>>), selectedId |-> Null,
   connectVia |-> Str(StrDirect), placementMode |-> Null]

\* the application as loaded with the given base layer, before any
\* interaction: initialState of useGridStore, GridTools with empty text
\* inputs, nothing resolved and no message, the empty route, no caching run
AppLoaded(layer) ==
  /\ gridStore = [origin |-> Null, originReference |-> Null, precision |-> Num(3, 0)]
  /\ gridTools =
       [originEast |-> <<>>, originNorth |-> <<>>, targetEast |-> <<>>, targetNorth |-> <<>>,
        resolvedLocation |-> Null, errorMessage |-> "none", statusMessage |-> "none"]
  /\ routeStore = RouteInitialState
  /\ routeOp = [fn |-> "create"]
  /\ baseLayer = layer
  /\ isCaching = FALSE
  /\ runs = <<>>

GridIdle ==
  /\ call = Undef
  /\ answer = Undef
  /\ back = Undef
  /\ kpc = "idle"

GeoIdle ==
  /\ position = Null
  /\ precision = Undef
  /\ hash = Undef
  /\ located = Undef
  /\ gpc = "idle"

ShareIdle ==
  /\ input = Undef
  /\ made = "none"
  /\ origin = "none"
  /\ edit = "none"
  /\ pasted = Undef
  /\ pc = "idle"

InitInput(inputs) ==
  /\ input \in inputs
  /\ made = "none"
  /\ origin = "none"
  /\ edit = "none"
  /\ pasted = Undef

Init ==
  /\ \/ InitInput(Inputs.SnapshotInputs) /\ pc = "snapshot"
     \/ InitInput(Inputs.RouteInputs) /\ pc = "route"
     \/ InitInput({Undef}) /\ pc = "paste"
  /\ GeoIdle
  /\ GridIdle
  /\ AppLoaded("street")

\* the value holds no NaN, which has no JSON text (JSON.stringify writes null)
RECURSIVE IsJsonValue(_)
IsJsonValue(v) ==
  CASE v.t = "nan" -> FALSE
    [] v.t = "obj" -> \A k \in DOMAIN v.f : IsJsonValue(v.f[k])
    [] v.t = "arr" -> \A i \in 1..Len(v.a) : IsJsonValue(v.a[i])
    [] v.t = "rep" -> IsJsonValue(v.item)
    [] OTHER -> TRUE

TamperedBuffer(bytes, kind) ==
  CASE kind = "version" -> [bytes EXCEPT ![1] = 2]
    [] kind = "truncate" -> SubSeq(bytes, 1, Len(bytes) - 1)
    [] kind = "extend" -> Append(bytes, 0)
    [] kind = "extend8" -> bytes \o <<0, 0, 0, 0, 0, 0, 0, 0>>
    [] kind = "count" -> [bytes EXCEPT ![5] = (bytes[5] + 1) % 256]
    [] kind = "flags" -> [bytes EXCEPT ![2] = bytes[2] + 4]
    [] kind = "start" -> [bytes EXCEPT ![2] = (bytes[2] + 1) % 4]
    [] kind = "range" -> IF Len(bytes) >= 9
                         THEN [bytes EXCEPT ![6] = 127, ![7] = 255, ![8] = 255, ![9] = 255]
                         ELSE bytes
    [] OTHER -> bytes

TamperedCode(bytes, kind) ==
  LET url == ToBase64Url(bytes)
  IN CASE kind = "space" -> <<32>> \o url \o <<13, 10>>
       [] kind = "pad" -> Base64Encode(bytes).s
       [] kind = "standard" ->
            AsSeq([i \in 1..Len(url) |->
              IF url[i] = 45 THEN 43 ELSE IF url[i] = 95 THEN 47 ELSE url[i]])
       [] OTHER -> url

\* The values the functions return are functions of the recorded calls; a
\* state records the calls and not the values, which stay short to write
\* down however long the route is.

\* the snapshot that normaliseRouteShareSnapshot / buildRouteShareSnapshot
\* returned (Null when absent)
snap ==
  CASE made = "normalise" -> NormaliseRouteShareSnapshot(input)
    [] made = "build" -> BuildRouteShareSnapshot(input)
    [] OTHER -> Undef

\* the bytes handed to toBase64Url, and their edited form
buffer ==
  CASE origin = "encode" -> RouteShareBuffer(NormaliseRouteShareSnapshot(snap))
    [] origin = "tamper" ->
         TamperedBuffer(RouteShareBuffer(NormaliseRouteShareSnapshot(snap)), edit)
    [] OTHER -> <<>>

\* the share code given to decodeRouteShare
code ==
  CASE origin = "encode" -> Str(EncodeRouteShare(snap))
    [] origin = "tamper" -> Str(TamperedCode(buffer, edit))
    [] origin = "legacy" -> Str(Base64Encode(JsonStringify(input)).s)
    [] origin = "paste" -> pasted
    [] OTHER -> Undef

\* what decodeRouteShare(code) did and returned
trace == IF pc = "decoded" THEN DecodeRouteShareTrace(code) ELSE NoTrace

\* normaliseRouteShareSnapshot(input)
Normalise ==
  /\ pc = "snapshot"
  /\ made' = "normalise"
  /\ pc' = "normalised"
  /\ UNCHANGED <<input, origin, edit, pasted, geoVars, gridVars, appVars>>

\* buildRouteShareSnapshot(input)
Build ==
  /\ pc = "route"
  /\ made' = "build"
  /\ pc' = "built"
  /\ UNCHANGED <<input, origin, edit, pasted, geoVars, gridVars, appVars>>

\* encodeRouteShare(snap) on a snapshot that normalise or build returned
Encode ==
  /\ pc \in {"normalised", "built"}
  /\ snap # Null
  /\ origin' = "encode"
  /\ pc' = "encoded"
  /\ UNCHANGED <<input, made, edit, pasted, geoVars, gridVars, appVars>>

\* a code issued before the binary format: base64 of the JSON text of the
\* JSON value input
LegacyEncode ==
  /\ pc = "snapshot"
  /\ IsJsonValue(input)
  /\ origin' = "legacy"
  /\ pc' = "encoded"
  /\ UNCHANGED <<input, made, edit, pasted, geoVars, gridVars, appVars>>

\* the user edits a binary share code before importing it
Tamper ==
  /\ pc = "encoded"
  /\ origin = "encode"
  /\ edit' \in Inputs.TamperKinds
  /\ origin' = "tamper"
  /\ UNCHANGED <<input, made, pasted, pc, geoVars, gridVars, appVars>>

\* the user pastes something that is no share code of this program
Paste ==
  /\ pc = "paste"
  /\ pasted' \in Inputs.PastedCodes
  /\ origin' = "paste"
  /\ pc' = "encoded"
  /\ UNCHANGED <<input, made, edit, geoVars, gridVars, appVars>>

\* decodeRouteShare(code)
Decode ==
  /\ pc = "encoded"
  /\ pc' = "decoded"
  /\ UNCHANGED <<input, made, origin, edit, pasted, geoVars, gridVars, appVars>>

Next == Normalise \/ Build \/ Encode \/ LegacyEncode \/ Tamper \/ Paste \/ Decode

Spec == Init /\ [][Next]_vars

InitLong ==
  \/ Init
  \/ /\ input = Inputs.LongSnapshot
     /\ made = "normalise"
     /\ origin = "none"
     /\ edit = "none"
     /\ pasted = Undef
     /\ pc = "normalised"
     /\ GeoIdle
     /\ AppLoaded("street")
  /\ GridIdle

SpecLong == InitLong /\ [][Next]_vars

InitGeo ==
  /\ ShareIdle
  /\ GridIdle
  /\ AppLoaded("street")
  /\ \/ /\ position \in Inputs.GeoPositions
        /\ precision \in Inputs.GeoPrecisions
        /\ gpc = "input"
     \/ /\ position = Null
        /\ precision = Undef
        /\ gpc = "paste"
  /\ hash = Undef
  /\ located = Undef

\* encodeLocationCode(position, precision)
EncodeLocation ==
  /\ gpc = "input"
  /\ hash' = EncodeLocationCode(position, precision)
  /\ gpc' = "encoded"
  /\ UNCHANGED <<position, precision, located, shareVars, gridVars, appVars>>

\* the user types a location code
PasteLocation ==
  /\ gpc = "paste"
  /\ hash' \in Inputs.PastedHashes
  /\ gpc' = "pasted"
  /\ UNCHANGED <<position, precision, located, shareVars, gridVars, appVars>>

\* decodeLocationCode(hash)
DecodeLocation ==
  /\ gpc \in {"encoded", "pasted"}
  /\ hash # Throw
  /\ located' = DecodeLocationCode(hash)
  /\ gpc' = "located"
  /\ UNCHANGED <<position, precision, hash, shareVars, gridVars, appVars>>

NextGeo == EncodeLocation \/ PasteLocation \/ DecodeLocation

SpecGeo == InitGeo /\ [][NextGeo]_vars

\* ------------------------------------------------------------------------
\* One call of a grid or bearing entry point
\* ------------------------------------------------------------------------
\* The calls of the model.  Origins lie at latitudes 0, 45 and 60 degrees.
\* An origin reference stores its digits as numbers, as the grid panel
\* does, or as digit strings, with or without a precision.  A point is an
\* origin displaced by tens of metres to kilometres (10^-7 degree of
\* latitude and longitude).  The bearings along the equator are taken from
\* an origin on the equator.
GridCalls ==
  LET place(lat7, lng7) == Obj([lat |-> Num(lat7, 7), lng |-> Num(lng7, 7)])
      stored(easting, northing, figures) ==
        Obj([easting |-> easting, northing |-> northing, precision |-> figures])
      origins ==
        { place(450000000, -750000000), place(0, 0),
          place(600000000, 100000000) }
      originReferences ==
        { stored(Num(500, 0), Num(500, 0), Num(3, 0)),
          stored(Num(999, 0), Num(0, 0), Num(3, 0)),
          stored(Num(5000, 0), Num(5000, 0), Num(4, 0)),
          stored(Str(<<53, 48, 48>>), Str(<<53, 48, 48>>), Num(3, 0)),
          Obj([easting |-> Num(500, 0), northing |-> Num(500, 0)]),
          Obj([easting |-> Num(5000, 0), northing |-> Num(5000, 0)]),
          Undef }
      targetReferences ==
        { Undef,
          stored(Str(<<53, 48, 49>>), Str(<<53, 48, 48>>), Num(3, 0)),
          stored(Str(<<53, 48, 48>>), Str(<<53, 48, 48>>), Num(3, 0)),
          stored(Str(<<52, 57, 48>>), Str(<<53, 50, 53>>), Undef),
          stored(Str(<<53, 48, 49>>), Str(<<53, 48, 48>>), Num(4, 0)),
          stored(Str(<<53, 48, 49, 48>>), Str(<<52, 57, 57, 48>>), Num(4, 0)),
          stored(Str(<<49, 50, 97>>), Str(<<53, 48, 48>>), Num(3, 0)) }
      precisions ==
        { Undef, Null, Num(3, 0), Num(4, 0), Num(5, 0), Num(0, 0), Str(<<51>>) }
      offsets ==
        { <<0, 0>>, <<0, 3815>>, <<8993, 0>>, <<0, 25437>>, <<-4497, -63592>>,
          <<269796, 381550>>, <<-404695, 12718>>, <<44966, -440000>> }
      shifted(from, offset) ==
        place(Get(from, "lat").n + offset[1], Get(from, "lng").n + offset[2])
      texts ==
        { Undef, Null, Num(123, 0), Str(<<>>), Str(<<32, 32>>), Str(<<49, 50>>),
          Str(<<49, 50, 51>>), Str(<<48, 48, 55>>), Str(<<49, 50, 97>>),
          Str(<<32, 49, 50, 51, 32>>), Str(<<45, 49, 50>>), Str(<<49, 50, 51, 52>>),
          Str(<<49, 46, 53>>) }
      destinationOrigins ==
        { Undef, Null, place(450000000, -750000000), place(0, 0),
          place(0, 1799900000), place(450000000, 1800000000),
          place(450000000, -1800000000) }
      bearings ==
        { Undef, Null, NaN, Infinity, Num(0, 0), Num(90, 0), Num(180, 0),
          Num(270, 0), Num(450, 0), Num(-90, 0) }
      distances ==
        { Undef, Null, NaN, Infinity, Num(-1, 0), Num(0, 0), Num(1000, 0),
          Num(5000, 0) }
      headings ==
        { Undef, Null, Num(0, 0), Num(90, 0), Num(350, 0), Num(3595, 1),
          Num(800, 0), Num(-90, 0) }
      targetBearings ==
        { Undef, Null, Num(0, 0), Num(45, 0), Num(359, 0), Num(720, 0), Num(-10, 0) }
  IN { [fn |-> "normaliseGridDigits", args |-> Obj([value |-> v, precision |-> p])] :
         v \in texts, p \in {Num(3, 0), Num(4, 0)} }
     \cup
     { [fn |-> "gridReferenceToLatLng",
        args |-> Obj([origin |-> o, originReference |-> r, targetReference |-> t,
                      precision |-> p])] :
         o \in origins \cup {Undef}, r \in originReferences,
         t \in targetReferences, p \in precisions }
     \cup
     { [fn |-> "latLngToGridReference",
        args |-> Obj([origin |-> c[1], originReference |-> r, point |-> c[2],
                      precision |-> p])] :
         c \in { <<o, shifted(o, d)>> : o \in origins, d \in offsets }
               \cup { <<o, Undef>> : o \in origins }
               \cup { <<Undef, place(0, 0)>> },
         r \in originReferences, p \in precisions }
     \cup
     { [fn |-> "destinationFromBearing",
        args |-> Obj([origin |-> c[1], bearingDegrees |-> c[2], distanceMeters |-> d])] :
         c \in { ob \in destinationOrigins \X bearings :
                  ob[2].t = "num" /\ (ob[2].n \div 90) % 2 = 1
                    => ob[1].t = "obj" /\ Get(ob[1], "lat").n = 0 },
         d \in distances }
     \cup
     { [fn |-> "calculateRelativeBearing",
        args |-> Obj([heading |-> h, bearing |-> b])] :
         h \in headings, b \in targetBearings }

InitGrid ==
  /\ ShareIdle /\ GeoIdle /\ AppLoaded("street")
  /\ call \in GridCalls
  /\ answer = Undef /\ back = Undef /\ kpc = "call"

CallNormaliseGridDigits ==
  /\ kpc = "call" /\ call.fn = "normaliseGridDigits"
  /\ answer' = NormaliseGridDigits(Get(call.args, "value"), Get(call.args, "precision"))
  /\ kpc' = "returned"
  /\ UNCHANGED <<call, back, shareVars, geoVars, appVars>>

CallGridReferenceToLatLng ==
  /\ kpc = "call" /\ call.fn = "gridReferenceToLatLng"
  /\ answer' = GridReferenceToLatLng(call.args)
  /\ kpc' = "returned"
  /\ UNCHANGED <<call, back, shareVars, geoVars, appVars>>

CallLatLngToGridReference ==
  /\ kpc = "call" /\ call.fn = "latLngToGridReference"
  /\ answer' = LatLngToGridReference(call.args)
  /\ kpc' = "returned"
  /\ UNCHANGED <<call, back, shareVars, geoVars, appVars>>

CallDestinationFromBearing ==
  /\ kpc = "call" /\ call.fn = "destinationFromBearing"
  /\ answer' = DestinationFromBearing(call.args)
  /\ kpc' = "returned"
  /\ UNCHANGED <<call, back, shareVars, geoVars, appVars>>

CallCalculateRelativeBearing ==
  /\ kpc = "call" /\ call.fn = "calculateRelativeBearing"
  /\ answer' = CalculateRelativeBearing(Get(call.args, "heading"),
                                        Get(call.args, "bearing"))
  /\ kpc' = "returned"
  /\ UNCHANGED <<call, back, shareVars, geoVars, appVars>>

\* the reference returned by latLngToGridReference is handed to
\* gridReferenceToLatLng with the same origin, origin reference and precision
ConvertBack ==
  /\ kpc = "returned" /\ call.fn = "latLngToGridReference" /\ answer # Throw
  /\ back' = GridReferenceToLatLng(
               Obj([origin |-> Get(call.args, "origin"),
                    originReference |-> Get(call.args, "originReference"),
                    targetReference |-> answer,
                    precision |-> Get(call.args, "precision")]))
  /\ kpc' = "back"
  /\ UNCHANGED <<call, answer, shareVars, geoVars, appVars>>

NextGrid ==
  \/ CallNormaliseGridDigits
  \/ CallGridReferenceToLatLng
  \/ CallLatLngToGridReference
  \/ CallDestinationFromBearing
  \/ CallCalculateRelativeBearing
  \/ ConvertBack

SpecGrid == InitGrid /\ [][NextGrid]_vars

\* ------------------------------------------------------------------------
\* The grid store (useGridStore) and the grid tools that write and read it
\* ------------------------------------------------------------------------
InitApp == ShareIdle /\ GeoIdle /\ GridIdle /\ AppLoaded("street")

\* clampPrecision of the store: 4 stays 4, anything else becomes 3
StoreClampPrecision(value) ==
  IF StrictEqualsInt(value, 4) THEN Num(4, 0) ELSE Num(3, 0)

\* setPrecision: the precision and the precision of a stored reference
SetPrecision(state, value) ==
  LET resolved == StoreClampPrecision(value)
      reference == state.originReference
  IN [state EXCEPT
        !.precision = resolved,
        !.originReference =
          IF Truthy(reference)
          THEN Obj([k \in DOMAIN reference.f \cup {"precision"} |->
                      IF k = "precision" THEN resolved ELSE reference.f[k]])
          ELSE Null]

\* setOriginReference: the reference with its precision clamped
SetOriginReference(state, reference) ==
  [state EXCEPT
     !.originReference =
       IF Truthy(reference)
       THEN Obj([k \in DOMAIN reference.f \cup {"precision"} |->
                   IF k = "precision"
                   THEN StoreClampPrecision(Coalesce(Get(reference, "precision"),
                                                     state.precision))
                   ELSE reference.f[k]])
       ELSE Null]

\* the effect of GridTools on [originReference, precision]: the origin text
\* inputs show the stored digits padded with zeros to the precision
OriginInputsEffect(state, tools) ==
  LET reference == state.originReference
      shown(digits) == IF IsNullish(digits) THEN <<>> ELSE Pad(digits, state.precision.n)
  IN IF Truthy(reference)
     THEN [tools EXCEPT !.originEast = shown(Get(reference, "easting")),
                        !.originNorth = shown(Get(reference, "northing"))]
     ELSE tools

\* handleSetOrigin with the location props and the typed origin digits
HandleSetOrigin ==
  /\ UNCHANGED <<shareVars, geoVars, gridVars, routeStore, routeOp, cacheVars>>
  /\ \E userLocation \in {Null, Position(Num(45, 0), Num(-75, 0))},
     selectedPosition \in {Null, Position(Num(0, 0), Num(0, 0))},
     originEast \in {<<>>, <<48, 48, 53>>, <<49, 50, 51>>, <<49, 50, 97>>, <<48, 53, 48, 48>>},
     originNorth \in {<<49, 50>>, <<32, 52, 53, 54, 32>>, <<48, 53, 48, 48>>} :
    LET locationToUse == IF Truthy(userLocation) THEN userLocation ELSE selectedPosition
        e == Trim(originEast)
        n == Trim(originNorth)
        easting == StringToNumber(e)
        northing == StringToNumber(n)
        typed == [gridTools EXCEPT !.originEast = originEast, !.originNorth = originNorth]
    IN IF \/ ~Truthy(locationToUse)
          \/ e = <<>> \/ n = <<>>
          \/ Len(e) # Len(n)
          \/ Len(e) \notin {3, 4}
          \/ NaN \in {easting, northing}
       THEN /\ gridTools' = [typed EXCEPT !.errorMessage = "set"]
            /\ UNCHANGED gridStore
       ELSE LET newPrecision == Num(Len(e), 0)
                stored ==
                  SetPrecision(
                    SetOriginReference(
                      [gridStore EXCEPT !.origin = locationToUse],
                      Obj([easting |-> easting, northing |-> northing,
                           precision |-> newPrecision])),
                    newPrecision)
            IN /\ gridStore' = stored
               /\ gridTools' = OriginInputsEffect(stored,
                                 [typed EXCEPT !.errorMessage = "none",
                                               !.statusMessage = "calibrated"])

\* resolveGridReference with the typed target digits
ResolveGridReference ==
  /\ UNCHANGED <<gridStore, shareVars, geoVars, gridVars, routeStore, routeOp, cacheVars>>
  /\ \E targetEast \in {<<>>, <<48, 49, 48>>, <<48, 53, 48, 49>>},
     targetNorth \in {<<48, 49, 48>>, <<48, 53, 48, 49>>} :
    LET typed == [gridTools EXCEPT !.targetEast = targetEast, !.targetNorth = targetNorth]
        candidate ==
          GridReferenceToLatLng(
            Obj([origin |-> gridStore.origin,
                 originReference |-> gridStore.originReference,
                 targetReference |-> Obj([easting |-> Str(targetEast),
                                          northing |-> Str(targetNorth),
                                          precision |-> gridStore.precision]),
                 precision |-> gridStore.precision]))
    IN gridTools' =
         IF targetEast = <<>> \/ targetNorth = <<>>
         THEN [typed EXCEPT !.errorMessage = "set"]
         ELSE IF candidate = Throw
         THEN [typed EXCEPT !.resolvedLocation = Null, !.errorMessage = "set"]
         ELSE [typed EXCEPT !.resolvedLocation = candidate, !.errorMessage = "none",
                            !.statusMessage = "resolved"]

NextGridStore ==
  \/ HandleSetOrigin
  \/ ResolveGridReference
  \/ \E value \in {Num(3, 0), Num(4, 0), Num(6, 0)} :
       /\ gridStore' = SetPrecision(gridStore, value)
       /\ gridTools' = OriginInputsEffect(gridStore', gridTools)
       /\ UNCHANGED <<shareVars, geoVars, gridVars, routeStore, routeOp, cacheVars>>

SpecGridStore == InitApp /\ [][NextGridStore]_vars

\* ------------------------------------------------------------------------
\* The checkpoint store (useCheckpointsStore), the share code of the route
\* and its import
\* ------------------------------------------------------------------------
\* createId(prefix): the prefix, '-' and the characters Math.random gave
CreateId(prefix, random) == Str(prefix \o <<45>> \o random)

\* normalizePlacementMode
NormalizePlacementMode(mode) ==
  IF IsNullish(mode) THEN Null
  ELSE IF mode.t = "str" THEN Obj([type |-> mode])
  ELSE IF TypeofObject(mode) /\ Get(mode, "type").t = "str" THEN mode
  ELSE Null

\* setPlacementMode: asking again for the mode that is set clears it
SetPlacementMode(state, mode) ==
  LET normalized == NormalizePlacementMode(mode)
      current == NormalizePlacementMode(state.placementMode)
  IN [state EXCEPT !.placementMode =
        IF ~Truthy(normalized) THEN Null
        ELSE IF /\ Get(current, "type") = Get(normalized, "type")
                /\ Coalesce(Get(current, "insertIndex"), Null)
                     = Coalesce(Get(normalized, "insertIndex"), Null)
        THEN Null
        ELSE normalized]

\* checkpoints.splice(index, 0, item) for 0 <= index <= length
Splice(list, index, item) ==
  SubSeq(list, 1, index) \o <<item>> \o SubSeq(list, index + 1, Len(list))

\* addCheckpoint that puts the new checkpoint at the end whatever insertIndex
AddCheckpoint_Append(state, place, insertIndex, id) ==
  [state EXCEPT
     !.checkpoints = Arr(Append(Elements(state.checkpoints),
                                Obj([id |-> id, position |-> place]))),
     !.placementMode = Null,
     !.selectedId = id]

\* addCheckpoint: the new checkpoint, whose id is `id`, goes to insertIndex
\* when that is a number within the list, to the end otherwise
AddCheckpoint(state, place, insertIndex, id) ==
  LET newCheckpoint == Obj([id |-> id, position |-> place])
      checkpoints == IF IsArray(state.checkpoints) THEN Elements(state.checkpoints)
                     ELSE <<>>
  IN [state EXCEPT
        !.checkpoints =
          IF /\ insertIndex.t = "num" /\ insertIndex.e = 0
             /\ insertIndex.n >= 0 /\ insertIndex.n <= Len(checkpoints)
          THEN Arr(Splice(checkpoints, insertIndex.n, newCheckpoint))
          ELSE Arr(Append(checkpoints, newCheckpoint)),
        !.placementMode = Null,
        !.selectedId = id]

\* checkpoints.findIndex((c) => c.id === id): 0 stands for -1, otherwise
\* the position in the list counted from 1
FindIndex(checkpoints, id) ==
  LET found == {i \in 1..Len(checkpoints) : Get(checkpoints[i], "id") = id}
  IN IF found = {} THEN 0 ELSE CHOOSE i \in found : \A j \in found : i <= j

\* moveCheckpoint
MoveCheckpoint(state, id, targetIndex) ==
  LET checkpoints == Elements(state.checkpoints)
      currentIndex == FindIndex(checkpoints, id)
  IN IF currentIndex = 0 \/ ~TypeofNumber(targetIndex) THEN state
     ELSE IF \/ targetIndex.t = "nan"
             \/ targetIndex.n < 0 \/ targetIndex.n >= Len(checkpoints)
             \/ targetIndex.n = currentIndex - 1
     THEN state
     ELSE LET without == SubSeq(checkpoints, 1, currentIndex - 1)
                           \o SubSeq(checkpoints, currentIndex + 1, Len(checkpoints))
          IN [state EXCEPT !.checkpoints =
                Arr(Splice(without, targetIndex.n, checkpoints[currentIndex]))]

\* removeCheckpoint that leaves selectedId as it was
RemoveCheckpoint_KeepsSelection(state, id) ==
  LET keep(checkpoint) == Get(checkpoint, "id") # id
  IN [state EXCEPT
        !.checkpoints = Arr(SelectSeq(Elements(state.checkpoints), keep)),
        !.placementMode = Null]

\* removeCheckpoint
RemoveCheckpoint(state, id) ==
  LET keep(checkpoint) == Get(checkpoint, "id") # id
  IN [state EXCEPT
        !.checkpoints = Arr(SelectSeq(Elements(state.checkpoints), keep)),
        !.selectedId = IF state.selectedId = id THEN Null ELSE state.selectedId,
        !.placementMode = Null]

\* the state that loadRouteSnapshot returns once the snapshot is normalised;
\* ids[i] is the id created for the i-th checkpoint
LoadNormalised(state, normalised, ids) ==
  IF ~Truthy(normalised) THEN state
  ELSE LET startNode == IF Truthy(Get(normalised, "start"))
                        THEN Obj([id |-> Str(<<115, 116, 97, 114, 116>>),
                                  position |-> Get(normalised, "start")])
                        ELSE Null
           endNode == IF Truthy(Get(normalised, "end"))
                      THEN Obj([id |-> Str(<<101, 110, 100>>),
                                position |-> Get(normalised, "end")])
                      ELSE Null
           positions == Elements(Get(normalised, "checkpoints"))
           checkpointNodes ==
             AsSeq([i \in 1..Len(positions) |->
                      Obj([id |-> ids[i], position |-> positions[i]])])
       IN [start |-> startNode,
           end |-> endNode,
           checkpoints |-> Arr(checkpointNodes),
           selectedId |->
             IF Truthy(startNode) THEN Str(<<115, 116, 97, 114, 116>>)
             ELSE IF Len(checkpointNodes) > 0 THEN Get(checkpointNodes[1], "id")
             ELSE IF Truthy(endNode) THEN Str(<<101, 110, 100>>)
             ELSE Null,
           connectVia |-> Get(normalised, "connectVia"),
           placementMode |-> Null]

\* loadRouteSnapshot
LoadRouteSnapshot(state, snapshot, ids) ==
  LoadNormalised(
    state,
    NormaliseRouteShareSnapshot(
      Obj([version |-> Coalesce(Get(snapshot, "version"), Num(ROUTE_SHARE_VERSION, 0)),
           connectVia |-> Get(snapshot, "connectVia"),
           start |-> Get(snapshot, "start"),
           end |-> Get(snapshot, "end"),
           checkpoints |-> Get(snapshot, "checkpoints")])),
    ids)

\* swapCheckpoints that gives the second marker's position to the first and
\* leaves the second as it was
SwapCheckpoints_CopyOnly(state, id1, id2) ==
  LET marker(id) ==
        IF id = Str(<<115, 116, 97, 114, 116>>) THEN state.start
        ELSE IF id = Str(<<101, 110, 100>>) THEN state.end
        ELSE LET idx == FindIndex(Elements(state.checkpoints), id)
             IN IF idx # 0 THEN Elements(state.checkpoints)[idx] ELSE Null
      moved(m) == Obj([m.f EXCEPT !.position = Get(marker(id2), "position")])
  IN IF ~Truthy(marker(id1)) \/ ~Truthy(marker(id2)) THEN state
     ELSE IF id1 = Str(<<115, 116, 97, 114, 116>>) THEN [state EXCEPT !.start = moved(@)]
     ELSE IF id1 = Str(<<101, 110, 100>>) THEN [state EXCEPT !.end = moved(@)]
     ELSE [state EXCEPT !.checkpoints =
             Arr([Elements(@) EXCEPT ![FindIndex(Elements(state.checkpoints), id1)] = moved(@)])]

\* swapCheckpoints: the positions of the two markers change places
SwapCheckpoints(state, id1, id2) ==
  LET getItem(id) ==
        IF id = Str(<<115, 116, 97, 114, 116>>) THEN [type |-> "start", item |-> state.start]
        ELSE IF id = Str(<<101, 110, 100>>) THEN [type |-> "end", item |-> state.end]
        ELSE LET idx == FindIndex(Elements(state.checkpoints), id)
             IN IF idx # 0
                THEN [type |-> "checkpoint", index |-> idx,
                      item |-> Elements(state.checkpoints)[idx]]
                ELSE [type |-> "none", item |-> Null]
      obj1 == getItem(id1)
      obj2 == getItem(id2)
      withPosition(marker, pos) ==
        Obj([k \in DOMAIN marker.f \cup {"position"} |->
               IF k = "position" THEN pos ELSE marker.f[k]])
      setPos(newState, obj, pos) ==
        IF obj.type = "start" THEN [newState EXCEPT !.start = withPosition(@, pos)]
        ELSE IF obj.type = "end" THEN [newState EXCEPT !.end = withPosition(@, pos)]
        ELSE [newState EXCEPT !.checkpoints =
                Arr([Elements(@) EXCEPT ![obj.index] = withPosition(@, pos)])]
  IN IF ~Truthy(obj1.item) \/ ~Truthy(obj2.item) THEN state
     ELSE setPos(setPos(state, obj1, Get(obj2.item, "position")),
                 obj2, Get(obj1.item, "position"))

\* shareSnapshot and shareCode of MapView: the code shown for the route
ShareCode(state) ==
  LET shareCode(shareSnapshot) ==
        IF Truthy(shareSnapshot) THEN EncodeRouteShare(shareSnapshot) ELSE <<>>
  IN shareCode(BuildRouteShareSnapshot(
                 Obj([start |-> state.start, end |-> state.end,
                      checkpoints |-> state.checkpoints,
                      connectVia |-> state.connectVia])))

\* handleShareImport with the text of the import field: the state of the
\* store afterwards, the text left in the field and the feedback shown
HandleShareImport(state, shareImportValue, ids) ==
  LET trimmed == Trim(shareImportValue)
      decoded(snapshot) ==
        IF ~Truthy(snapshot)
        THEN [routeStore |-> state, shareImportValue |-> shareImportValue,
              feedback |-> "error"]
        ELSE [routeStore |-> LoadRouteSnapshot(state, snapshot, ids),
              shareImportValue |-> <<>>, feedback |-> "success"]
  IN IF trimmed = <<>>
     THEN [routeStore |-> state, shareImportValue |-> shareImportValue,
           feedback |-> "warning"]
     ELSE decoded(DecodeRouteShare(Str(trimmed)))

\* set(...) of the store by the named operation; a set that leaves every
\* field as it was is no step
StoreSet(operation, state) ==
  /\ routeStore' = state
  /\ routeOp' = IF routeStore' = routeStore THEN routeOp ELSE operation
  /\ UNCHANGED <<shareVars, geoVars, gridVars, gridStore, gridTools, cacheVars>>

NextRoute ==
  LET places == {Position(Num(45000000, 6), Num(-75000000, 6)),
                 Position(Num(45, 0), Num(1805, 1))}
      startId == Str(<<115, 116, 97, 114, 116>>)
      endId == Str(<<101, 110, 100>>)
      created == {CreateId(<<99, 104, 101, 99, 107, 112, 111, 105, 110, 116>>, r) :
                    r \in {<<97>>, <<98>>}}
      checkpoints == Elements(routeStore.checkpoints)
      present == {Get(checkpoints[i], "id") : i \in 1..Len(checkpoints)}
                   \cup (IF Truthy(routeStore.start) THEN {startId} ELSE {})
                   \cup (IF Truthy(routeStore.end) THEN {endId} ELSE {})
      unknown == Str(<<120>>)
      other == [fn |-> "set"]
  IN \/ \E mode \in {Null, Str(<<115, 116, 97, 114, 116>>),
                     Obj([type |-> Str(<<99, 104, 101, 99, 107, 112, 111, 105, 110, 116>>)])}
                    \cup {Obj([type |-> Str(<<99, 104, 101, 99, 107, 112, 111, 105, 110, 116>>),
                               insertIndex |-> Num(i, 0)]) : i \in 0..Len(checkpoints)} :
          StoreSet(other, SetPlacementMode(routeStore, mode))
     \/ StoreSet(other,
                 [routeStore EXCEPT !.connectVia =
                    IF @ = Str(StrDirect) THEN Str(StrRoute) ELSE Str(StrDirect)])
     \/ \E place \in places :
          StoreSet(other,
                   [routeStore EXCEPT !.start = Obj([id |-> startId, position |-> place]),
                                      !.placementMode = Null,
                                      !.selectedId = startId])
     \/ \E place \in places :
          StoreSet(other,
                   [routeStore EXCEPT !.end = Obj([id |-> endId, position |-> place]),
                                      !.placementMode = Null,
                                      !.selectedId = endId])
     \/ \E place \in places, id \in created,
           insertIndex \in {Undef, Coalesce(Get(routeStore.placementMode, "insertIndex"), Undef)} :
          /\ Len(checkpoints) < MaxCheckpoints
          /\ StoreSet([fn |-> "addCheckpoint", insertIndex |-> insertIndex],
                      AddCheckpoint(routeStore, place, insertIndex, id))
     \/ \E id \in present :
          StoreSet(other, [routeStore EXCEPT !.selectedId = id])
     \/ \E id \in created, place \in places :
          StoreSet(other,
                   [routeStore EXCEPT !.checkpoints =
                      Arr([i \in 1..Len(checkpoints) |->
                             IF Get(checkpoints[i], "id") = id
                             THEN Obj([checkpoints[i].f EXCEPT !.position = place])
                             ELSE checkpoints[i]])])
     \/ \E id \in created, targetIndex \in -1..Len(checkpoints) :
          StoreSet(other, MoveCheckpoint(routeStore, id, Num(targetIndex, 0)))
     \/ \E id \in created \cup {startId} :
          StoreSet(other, RemoveCheckpoint(routeStore, id))
     \/ \E snapshot \in {Null, Obj([version |-> Num(2, 0),
                                    start |-> Position(Num(45000000, 6), Num(-75000000, 6))])} :
          StoreSet(other, LoadRouteSnapshot(routeStore, snapshot, <<>>))
     \/ StoreSet(other, RouteInitialState)
     \/ \E id1 \in present \cup {unknown}, id2 \in present \cup {unknown} :
          StoreSet([fn |-> "swapCheckpoints"], SwapCheckpoints(routeStore, id1, id2))
     \/ \E shareImportValue \in
             {<<>>, <<110, 111, 116, 45, 97, 45, 99, 111, 100, 101>>,
              <<32>> \o ShareCode(routeStore)},
           id \in created :
          StoreSet(other,
                   HandleShareImport(routeStore, shareImportValue,
                                     [i \in 1..Len(checkpoints) |-> id]).routeStore)

SpecRoute == InitApp /\ [][NextRoute]_vars

\* ------------------------------------------------------------------------
\* Tile caching of MapView: handlePrefetchTiles, its workers, and the effect
\* of a base layer change
\* ------------------------------------------------------------------------
MAX_TILE_FETCH_CONCURRENCY == 6

\* one worker for every tile, whatever their number
WorkerCount_PerTile(tiles) == tiles

\* workerCount of a run with `tiles` tiles
WorkerCount(tiles) ==
  IF MAX_TILE_FETCH_CONCURRENCY < tiles THEN MAX_TILE_FETCH_CONCURRENCY ELSE tiles

\* runWorker from the head of its loop to its next await: the worker takes
\* the first tile of the queue and starts its fetch, or returns when the
\* queue is empty
RunWorker(run, w) ==
  IF Len(run.tileQueue) > 0
  THEN [run EXCEPT !.tileQueue = Tail(@),
                   !.workers[w] = [pc |-> "fetch", tile |-> Head(run.tileQueue)],
                   !.fetches[Head(run.tileQueue)] = @ + 1]
  ELSE [run EXCEPT !.workers[w] = [pc |-> "returned", tile |-> 0]]

\* handlePrefetchTiles from the click to `await caches.open`; the button is
\* disabled by cacheDisabled, and the tiles are the distinct keys 1..tiles
HandlePrefetchTiles(tiles) ==
  /\ ~(baseLayer # "satellite" \/ isCaching)
  /\ baseLayer = "satellite"
  /\ Len(runs) < MaxRuns
  /\ isCaching' = TRUE
  /\ runs' = Append(runs, [pc |-> "open", tiles |-> tiles,
                           tileQueue |-> <<>>, workers |-> <<>>,
                           successCount |-> 0, errors |-> 0,
                           fetches |-> [tile \in 1..tiles |-> 0],
                           status |-> "info"])
  /\ UNCHANGED <<baseLayer, shareVars, geoVars, gridVars,
                 gridStore, gridTools, routeStore, routeOp>>

\* caches.open settles: with the cache, the queue is filled and
\* Array.from({ length: workerCount }, runWorker) runs every worker up to
\* its first await; with a rejection, catch and finally end the run
CacheOpened(r, opened) ==
  /\ runs[r].pc = "open"
  /\ LET RECURSIVE started(_, _)
         started(run, w) ==
           IF w > WorkerCount(run.tiles) THEN run
           ELSE started(RunWorker(run, w), w + 1)
         queued == [runs[r] EXCEPT
                      !.pc = "workers",
                      !.tileQueue = [tile \in 1..runs[r].tiles |-> tile],
                      !.workers = [w \in 1..WorkerCount(runs[r].tiles) |->
                                     [pc |-> "new", tile |-> 0]]]
     IN IF opened
        THEN runs' = [runs EXCEPT ![r] = started(queued, 1)] /\ UNCHANGED isCaching
        ELSE /\ runs' = [runs EXCEPT ![r].pc = "done", ![r].status = "error"]
             /\ isCaching' = FALSE
  /\ UNCHANGED <<baseLayer, shareVars, geoVars, gridVars,
                 gridStore, gridTools, routeStore, routeOp>>

\* the fetch of a worker settles: a usable response ("ok") goes on to
\* cache.put; a response that is not ok and a rejection ("error") both reach
\* the catch block, which records the error, and the worker, done with its
\* tile, waits for an animation frame
FetchSettled(r, w, outcome) ==
  /\ runs[r].pc = "workers"
  /\ runs[r].workers[w].pc = "fetch"
  /\ runs' = IF outcome = "ok"
             THEN [runs EXCEPT ![r].workers[w].pc = "put"]
             ELSE [runs EXCEPT ![r].workers[w] = [pc |-> "frame", tile |-> 0], ![r].errors = @ + 1]
  /\ UNCHANGED <<baseLayer, isCaching, shareVars, geoVars, gridVars,
                 gridStore, gridTools, routeStore, routeOp>>

\* cache.put of a worker settles
PutSettled(r, w, stored) ==
  /\ runs[r].pc = "workers"
  /\ runs[r].workers[w].pc = "put"
  /\ runs' = IF stored
             THEN [runs EXCEPT ![r].workers[w] = [pc |-> "frame", tile |-> 0], ![r].successCount = @ + 1]
             ELSE [runs EXCEPT ![r].workers[w] = [pc |-> "frame", tile |-> 0], ![r].errors = @ + 1]
  /\ UNCHANGED <<baseLayer, isCaching, shareVars, geoVars, gridVars,
                 gridStore, gridTools, routeStore, routeOp>>

\* the animation frame of a worker fires and its loop goes round
AnimationFrame(r, w) ==
  /\ runs[r].pc = "workers"
  /\ runs[r].workers[w].pc = "frame"
  /\ runs' = [runs EXCEPT ![r] = RunWorker(@, w)]
  /\ UNCHANGED <<baseLayer, isCaching, shareVars, geoVars, gridVars,
                 gridStore, gridTools, routeStore, routeOp>>

\* Promise.all of the workers resolves: the outcome is shown and finally
\* sets isCaching to false
AllSettled(r) ==
  /\ runs[r].pc = "workers"
  /\ \A w \in 1..Len(runs[r].workers) : runs[r].workers[w].pc = "returned"
  /\ runs' = [runs EXCEPT ![r].pc = "done",
                          ![r].status = IF runs[r].errors = runs[r].tiles THEN "error"
                                        ELSE IF runs[r].errors > 0 THEN "warning"
                                        ELSE "success"]
  /\ isCaching' = FALSE
  /\ UNCHANGED <<baseLayer, shareVars, geoVars, gridVars,
                 gridStore, gridTools, routeStore, routeOp>>

\* handleBaseLayerToggle and the effect that follows the change of baseLayer
ChangeBaseLayer(nextLayer) ==
  /\ nextLayer # baseLayer
  /\ baseLayer' = nextLayer
  /\ isCaching' = FALSE
  /\ UNCHANGED <<runs, shareVars, geoVars, gridVars,
                 gridStore, gridTools, routeStore, routeOp>>

\* the steps by which the runs under way go on
RunSteps ==
  \E r \in 1..Len(runs) :
    \/ \E opened \in BOOLEAN : CacheOpened(r, opened)
    \/ \E w \in 1..Len(runs[r].workers), outcome \in {"ok", "error"} :
         FetchSettled(r, w, outcome)
    \/ \E w \in 1..Len(runs[r].workers), stored \in BOOLEAN : PutSettled(r, w, stored)
    \/ \E w \in 1..Len(runs[r].workers) : AnimationFrame(r, w)
    \/ AllSettled(r)

\* one caching run on the satellite layer
NextTiles ==
  \/ \E tiles \in 1..MaxTiles : runs = <<>> /\ HandlePrefetchTiles(tiles)
  \/ RunSteps

\* the satellite layer has been chosen and no run was started yet; every
\* await of a run settles in the end: caches.open, fetch, cache.put, the
\* animation frame, and the continuation of Promise.all
InitTiles == ShareIdle /\ GeoIdle /\ GridIdle /\ AppLoaded("satellite")

SpecTiles == InitTiles /\ [][NextTiles]_vars /\ WF_vars(RunSteps)

\* cache requests and base layer changes while runs are under way
NextCache ==
  \/ \E nextLayer \in {"street", "satellite"} : ChangeBaseLayer(nextLayer)
  \/ \E tiles \in 1..MaxOverlapTiles : HandlePrefetchTiles(tiles)
  \/ RunSteps

SpecCache == InitApp /\ [][NextCache]_vars

\* ------------------------------------------------------------------------
\* Properties
\* ------------------------------------------------------------------------
Abs(x) == IF x < 0 THEN 0 - x ELSE x

\* both positions absent, or both present and within 1e-5 degrees
SamePlace(p, q) ==
  IF p = Null \/ q = Null THEN p = q
  ELSE /\ p.t = "obj" /\ q.t = "obj"
       /\ Abs(p.f.lat.n - q.f.lat.n) <= 10
       /\ Abs(p.f.lng.n - q.f.lng.n) <= 10

\* C1: decoding the code that encodeRouteShare made of a normalised snapshot
\* gives a snapshot with the same connectVia, the same start and end
\* presence, as many checkpoints in the same order, every coordinate within
\* 1e-5 degrees.
C1_RoundTrip ==
  (pc = "decoded" /\ origin = "encode") =>
    LET given == snap
        result == trace.result
    IN /\ result.t = "obj"
       /\ result.f.connectVia = given.f.connectVia
       /\ SamePlace(result.f.start, given.f.start)
       /\ SamePlace(result.f.end, given.f.end)
       /\ Len(result.f.checkpoints.a) = Len(given.f.checkpoints.a)
       /\ \A i \in 1..Len(given.f.checkpoints.a) :
            SamePlace(result.f.checkpoints.a[i], given.f.checkpoints.a[i])

IsNormalisedPosition(p) ==
  /\ p.t = "obj"
  /\ DOMAIN p.f = {"lat", "lng"}
  /\ p.f.lat.t = "num" /\ p.f.lat.e = 6
  /\ p.f.lng.t = "num" /\ p.f.lng.e = 6
  /\ p.f.lat.n >= -90000000 /\ p.f.lat.n <= 90000000
  /\ p.f.lng.n >= -180000000 /\ p.f.lng.n <= 180000000

IsNormalisedSnapshot(s) ==
  /\ s.t = "obj"
  /\ DOMAIN s.f = {"version", "connectVia", "start", "end", "checkpoints"}
  /\ s.f.version = Num(1, 0)
  /\ s.f.connectVia \in {Str(StrRoute), Str(StrDirect)}
  /\ s.f.start = Null \/ IsNormalisedPosition(s.f.start)
  /\ s.f.end = Null \/ IsNormalisedPosition(s.f.end)
  /\ s.f.checkpoints.t = "arr"
  /\ \A i \in 1..Len(s.f.checkpoints.a) : IsNormalisedPosition(s.f.checkpoints.a[i])

\* C2: decodeRouteShare returns a normalised snapshot or null for every
\* input and never lets an exception reach its caller.
C2_DecodeNeverThrows ==
  pc = "decoded" =>
    LET result == trace.result
    IN /\ result # Throw
       /\ result = Null \/ IsNormalisedSnapshot(result)

\* a string that is no base64 at all was decoded to null
C2_Witness ==
  /\ pc = "decoded"
  /\ code.t = "str"
  /\ Trim(code.s) # <<>>
  /\ ~FromBase64Url(Trim(code.s)).ok
  /\ ~Base64Decode(Trim(code.s)).ok
  /\ trace.result = Null

\* v = Math.round(micro / 10), rounding a tie upwards
IsRoundOf(v, micro) == 10 * v <= micro + 5 /\ micro + 5 < 10 * v + 10

\* C3: the buffer that encodeRouteShare base64url-encodes is 5 + 8 *
\* (hasStart + hasEnd + checkpointCount) bytes long; byte 0 is 1; byte 1 is
\* bit0 = start present, bit1 = end present; byte 2 is 1 iff connectVia is
\* route; bytes 3-4 are the checkpoint count, big-endian; then start,
\* checkpoints in order, end, each round(lat * 1e5), round(lng * 1e5) as
\* big-endian signed 32-bit integers.
C3_BufferLayout ==
  (pc = "encoded" /\ origin = "encode") =>
    LET given == snap
        bytes == buffer
        hasStart == IF given.f.start # Null THEN 1 ELSE 0
        hasEnd == IF given.f.end # Null THEN 1 ELSE 0
        count == Len(given.f.checkpoints.a)
        coordinate(k) == IF k <= hasStart THEN given.f.start
                         ELSE IF k <= hasStart + count
                              THEN given.f.checkpoints.a[k - hasStart]
                         ELSE given.f.end
    IN /\ Len(bytes) = 5 + 8 * (hasStart + hasEnd + count)
       /\ bytes[1] = 1
       /\ bytes[2] = hasStart + 2 * hasEnd
       /\ bytes[3] = (IF given.f.connectVia = Str(StrRoute) THEN 1 ELSE 0)
       /\ bytes[4] * 256 + bytes[5] = count
       /\ \A k \in 1..(hasStart + hasEnd + count) :
            /\ IsRoundOf(GetInt32(bytes, 5 + 8 * (k - 1)), coordinate(k).f.lat.n)
            /\ IsRoundOf(GetInt32(bytes, 9 + 8 * (k - 1)), coordinate(k).f.lng.n)
       /\ code = Str(ToBase64Url(bytes))

\* the decoded buffer has version 1 and exactly the length its header announces
BufferFits(bytes) ==
  /\ Len(bytes) >= 5
  /\ bytes[1] = 1
  /\ Len(bytes) = 5 + 8 * ((bytes[2] % 2) + ((bytes[2] \div 2) % 2)
                           + bytes[4] * 256 + bytes[5])

\* C4: the binary path accepts a buffer only if its version byte is 1 and
\* its length is exactly 5 + 8 * (flag bit0 + flag bit1 + checkpoint count);
\* otherwise it yields nothing and the legacy path is attempted; the legacy
\* path is never attempted after the binary path produced a result; when
\* both fail the result is absent.
C4_BinaryThenLegacy ==
  pc = "decoded" =>
    LET text == code
        done == trace
        decoded == FromBase64Url(Trim(text.s))
        legacyText == Base64Decode(Trim(text.s))
        accepted == done.binaryResult.t = "obj"
    IN (text.t = "str" /\ Trim(text.s) # <<>>) =>
         /\ accepted => decoded.ok /\ BufferFits(decoded.s)
         /\ ~accepted => done.binaryResult = Null /\ done.legacy
         /\ accepted => ~done.legacy
         /\ (~accepted /\ (~legacyText.ok \/ JsonParse(legacyText.s) = Throw))
              => done.result = Null

\* a version-1 buffer of the wrong length was refused and the legacy path tried
C4_Witness ==
  /\ pc = "decoded"
  /\ origin = "tamper"
  /\ edit \in {"truncate", "extend", "count"}
  /\ FromBase64Url(Trim(code.s)).ok
  /\ Len(buffer) >= 5 /\ buffer[1] = 1
  /\ ~BufferFits(buffer)
  /\ trace.legacy
  /\ trace.result = Null

\* C5: decodeRouteShare of the standard base64 of the JSON text of a
\* snapshot object J that normaliseRouteShareSnapshot accepts returns
\* normaliseRouteShareSnapshot(J), and the binary path never takes it.
C5_LegacyDecode ==
  (pc = "decoded" /\ origin = "legacy" /\ NormaliseRouteShareSnapshot(input) # Null) =>
    LET done == trace
    IN /\ done.binaryResult = Null
       /\ done.legacy
       /\ done.result = NormaliseRouteShareSnapshot(input)

\* a legacy code of a route with a start and checkpoints was decoded
C5_Witness ==
  /\ pc = "decoded"
  /\ origin = "legacy"
  /\ LET done == trace
     IN /\ done.legacy
        /\ done.result.t = "obj"
        /\ done.result.f.start # Null
        /\ Len(done.result.f.checkpoints.a) = 2
        /\ done.result.f.connectVia = Str(StrRoute)

\* the value is the number 1
IsCurrentVersion(v) == v.t = "num" /\ v.n = Pow10(v.e)

\* C6: normaliseRouteShareSnapshot takes an absent version as version 1 and
\* returns a failure for every input whose version is present and is not
\* the current version.
C6_VersionChecked ==
  (pc = "normalised" /\ input.t = "obj") =>
    LET version == Get(input, "version")
        returned == snap
    IN /\ version = Undef => (returned # Null /\ returned.f.version = Num(1, 0))
       /\ (version # Undef /\ ~IsCurrentVersion(version)) => returned = Null

\* a position in the sense of the data model: an object whose lat and lng
\* are numbers within range
IsValidPosition(c) ==
  /\ c.t = "obj"
  /\ Get(c, "lat").t = "num" /\ Get(c, "lng").t = "num"
  /\ ~LessThan(Get(c, "lat"), -90) /\ ~GreaterThan(Get(c, "lat"), 90)
  /\ ~LessThan(Get(c, "lng"), -180) /\ ~GreaterThan(Get(c, "lng"), 180)

\* C7: every position of a returned snapshot has -90 <= lat <= 90 and
\* -180 <= lng <= 180; each input checkpoint that is not a valid position is
\* dropped without failing the snapshot, the others keep their order.
C7_InvalidDropped ==
  pc = "normalised" =>
    LET returned == snap
        given == IF IsArray(Get(input, "checkpoints"))
                 THEN Elements(Get(input, "checkpoints")) ELSE <<>>
        kept == SelectSeq(given, IsValidPosition)
    IN returned # Null =>
         /\ IsNormalisedSnapshot(returned)
         /\ returned.f.checkpoints.a =
              [i \in 1..Len(kept) |-> NormalisePosition(kept[i])]

\* the position a marker of the route state holds
PositionOfMarker(m) ==
  IF m = Null THEN Null
  ELSE IF "position" \in DOMAIN m.f THEN m.f.position ELSE m

\* C8: buildRouteShareSnapshot returns absent exactly when the normalised
\* route has no start, no end and no checkpoint; otherwise a version-1
\* snapshot of the normalised positions of the markers, in list order.
C8_BuildSnapshot ==
  pc = "built" =>
    LET start == NormalisePosition(PositionOfMarker(input.f.start))
        end == NormalisePosition(PositionOfMarker(input.f.end))
        all == [i \in 1..Len(input.f.checkpoints.a) |->
                  NormalisePosition(PositionOfMarker(input.f.checkpoints.a[i]))]
        checkpoints == SelectSeq(AsSeq(all), LAMBDA p : p # Null)
        built == snap
    IN /\ built = Null <=> (start = Null /\ end = Null /\ checkpoints = <<>>)
       /\ built # Null =>
            /\ built.f.version = Num(1, 0)
            /\ built.f.connectVia = input.f.connectVia
            /\ built.f.start = start
            /\ built.f.end = end
            /\ built.f.checkpoints.a = checkpoints

\* a route whose only markers are two checkpoints, one out of range, gave a
\* snapshot of the other one
C8_Witness ==
  /\ pc = "built"
  /\ snap # Null
  /\ snap.f.start = Null /\ snap.f.end = Null
  /\ Len(snap.f.checkpoints.a) = 1
  /\ Len(input.f.checkpoints.a) = 2

\* the precision is a number p with 1 <= p <= 12
PrecisionInRange(p) == p.t = "num" /\ ~NumLess(p, 1) /\ ~NumGreater(p, 12)

\* C9: encodeLocationCode fails for every precision outside [1,12]; for an
\* accepted precision and a valid position the code has exactly `precision`
\* characters of the alphabet 0123456789bcdefghjkmnpqrstuvwxyz.
C9_PrecisionChecked ==
  gpc = "encoded" =>
    LET p == IF precision = Undef THEN Num(9, 0) ELSE precision
    IN /\ ~PrecisionInRange(p) => hash = Throw
       /\ (PrecisionInRange(p) /\ NormalisePosition(position) # Null) =>
            /\ hash.t = "str"
            /\ Len(hash.s) * Pow10(p.e) = p.n
            /\ \A i \in 1..Len(hash.s) :
                 \E k \in 1..Len(GEOHASH_BASE32) : hash.s[i] = GEOHASH_BASE32[k]

IsPrefix(s, l) == Len(s) <= Len(l) /\ SubSeq(l, 1, Len(s)) = s

\* C10: for 1 <= m <= n <= 12 the code of precision m is the first m
\* characters of the code of precision n, and the box of the longer code
\* lies inside the box of the shorter one (a range reached by more halvings
\* lies inside one reached by fewer iff the fewer are its first halvings).
C10_PrefixAndNesting ==
  (gpc = "encoded" /\ hash.t = "str" /\ precision.t = "num" /\ precision.e = 0) =>
    \A m \in 1..precision.n :
      LET shorter == EncodeLocationCode(position, Num(m, 0))
      IN /\ shorter = Str(SubSeq(hash.s, 1, m))
         /\ IsPrefix(DecodeLocationBox(shorter.s).lat, DecodeLocationBox(hash.s).lat)
         /\ IsPrefix(DecodeLocationBox(shorter.s).lng, DecodeLocationBox(hash.s).lng)

C10_Witness ==
  /\ gpc = "encoded"
  /\ hash.t = "str"
  /\ precision = Num(12, 0)
  /\ Len(hash.s) = 12
  /\ hash.s[1] # hash.s[12]

ToUpperCase(c) == IF c >= 97 /\ c <= 122 THEN c - 32 ELSE c

\* a string of 1 to 12 characters that all belong, in lower case, to the
\* base-32 alphabet
IsLocationCode(v) ==
  /\ v.t = "str"
  /\ Len(v.s) >= 1 /\ Len(v.s) <= 12
  /\ \A i \in 1..Len(v.s) :
       \E k \in 1..Len(GEOHASH_BASE32) : ToLowerCase(v.s[i]) = GEOHASH_BASE32[k]

\* C11: decodeLocationCode returns a position exactly for the strings of 1
\* to 12 characters of the base-32 alphabet (in either case) and absent for
\* every other input; a code and its upper-cased form decode alike.
C11_DecodeValidity ==
  gpc = "located" =>
    /\ IsLocationCode(hash) <=> located.t = "obj"
    /\ ~IsLocationCode(hash) => located = Null
    /\ hash.t = "str" =>
         DecodeLocationCode(Str([i \in 1..Len(hash.s) |-> ToUpperCase(hash.s[i])]))
           = located
\* the call of a grid conversion repeated with the explicit precision p
WithPrecision(args, p) == Obj([args.f EXCEPT !.precision = p])

ConversionWith(entry, p) ==
  IF entry.fn = "gridReferenceToLatLng"
  THEN GridReferenceToLatLng(WithPrecision(entry.args, p))
  ELSE LatLngToGridReference(WithPrecision(entry.args, p))

IsGridConversion(entry) ==
  entry.fn \in {"gridReferenceToLatLng", "latLngToGridReference"}

\* what a conversion returns when the precision it uses is `used`
ConversionAt(entry, used) ==
  IF used \in {Num(3, 0), Num(4, 0)} THEN ConversionWith(entry, used) ELSE Throw

\* C12 as stated: both conversions use the explicit precision when given,
\* otherwise the precision stored in the origin reference, otherwise 3, and
\* fail when that value is neither 3 nor 4.
C12_PrecisionOrder ==
  kpc = "returned" /\ IsGridConversion(call) =>
    answer = ConversionAt(call,
               Coalesce(Coalesce(Get(call.args, "precision"),
                                 Get(Get(call.args, "originReference"), "precision")),
                        Num(3, 0)))

\* C12: the precision used is the explicit precision when given, otherwise
\* the precision stored in the origin reference, otherwise (in
\* gridReferenceToLatLng only) the precision stored in the target
\* reference, otherwise 3; when that value is neither 3 nor 4 the call
\* fails and produces no position or reference.
C12_PrecisionResolution ==
  kpc = "returned" /\ IsGridConversion(call) =>
    LET stored == Coalesce(Get(Get(call.args, "originReference"), "precision"),
                           IF call.fn = "gridReferenceToLatLng"
                           THEN Get(Get(call.args, "targetReference"), "precision")
                           ELSE Undef)
    IN answer = ConversionAt(call, Coalesce(Coalesce(Get(call.args, "precision"), stored),
                                            Num(3, 0)))

\* gridReferenceToLatLng took the precision 4 from the target reference and
\* returned a position
C12_Witness ==
  /\ kpc = "returned" /\ call.fn = "gridReferenceToLatLng"
  /\ IsNullish(Get(call.args, "precision"))
  /\ Get(call.args, "originReference").t = "obj"
  /\ IsNullish(Get(Get(call.args, "originReference"), "precision"))
  /\ Get(Get(call.args, "targetReference"), "precision") = Num(4, 0)
  /\ answer.t = "obj"

\* C13: normaliseGridDigits(text, precision) returns the integer value only
\* when text is a string of digits of length exactly `precision`, and fails
\* for every other text: wrong length, a non-digit character, surrounding
\* white space, or empty text.
C13_DigitsOnly ==
  /\ kpc = "returned" /\ call.fn = "normaliseGridDigits"
  /\ Get(call.args, "value").t = "str"
  => LET text == Get(call.args, "value").s
     IN IF AllDigits(text) /\ Len(text) = Get(call.args, "precision").n
        THEN answer = Num(DigitsValue(text, 1, Len(text)), 0)
        ELSE answer = Throw

\* the stored digit of a reference as an integer: a number, or a string of
\* digits
StoredDigit(d) == IF d.t = "num" THEN d.n ELSE DigitsValue(d.s, 1, Len(d.s))

\* text is exactly `figures` decimal digits whose value is `expected`
IsDigitsOf(text, figures, expected) ==
  /\ text.t = "str"
  /\ Len(text.s) = figures
  /\ AllDigits(text.s)
  /\ DigitsValue(text.s, 1, Len(text.s)) = expected

\* millimetres north and east of the origin of the point of a call
NorthOf(args) ==
  ScaleE4(Degrees7(Get(Get(args, "point"), "lat")) - Degrees7(Get(Get(args, "origin"), "lat")),
          MillimetresPerLatitude)

EastOf(args) ==
  ScaleE4(Degrees7(Get(Get(args, "point"), "lng")) - Degrees7(Get(Get(args, "origin"), "lng")),
          MillimetresPerLongitude(Degrees7(Get(Get(args, "origin"), "lat"))))

\* C14: whenever latLngToGridReference returns a reference, its easting and
\* northing are each a string of exactly `precision` decimal digits
\* (zero-padded, no sign, no extra digit) equal to
\* round(originDigit + offset / unitMeters), and its precision is the
\* resolved precision.
C14_ReferenceDigits ==
  kpc = "returned" /\ call.fn = "latLngToGridReference" /\ answer # Throw =>
    LET reference == Get(call.args, "originReference")
        resolved == Coalesce(Coalesce(Get(call.args, "precision"),
                                      Get(reference, "precision")), Num(3, 0))
        unit == (IF resolved.n = 3 THEN 100 ELSE 10) * 1000
    IN /\ Get(answer, "precision") = resolved
       /\ IsDigitsOf(Get(answer, "easting"), resolved.n,
                     StoredDigit(Get(reference, "easting"))
                     + RoundedQuotient(EastOf(call.args), unit))
       /\ IsDigitsOf(Get(answer, "northing"), resolved.n,
                     StoredDigit(Get(reference, "northing"))
                     + RoundedQuotient(NorthOf(call.args), unit))

\* millimetres between two positions a and b near an origin at latitude
\* lat7, north and east
NorthBetween(a, b) ==
  ScaleE4(Degrees7(Get(b, "lat")) - Degrees7(Get(a, "lat")), MillimetresPerLatitude)

EastBetween(a, b, lat7) ==
  ScaleE4(Degrees7(Get(b, "lng")) - Degrees7(Get(a, "lng")), MillimetresPerLongitude(lat7))

Magnitude(x) == IF x < 0 THEN 0 - x ELSE x

\* a and b are less than one metre apart
WithinOneMetre(a, b, lat7) ==
  /\ Magnitude(NorthBetween(a, b)) < 1000
  /\ Magnitude(EastBetween(a, b, lat7)) < 1000
  /\ NorthBetween(a, b) * NorthBetween(a, b)
     + EastBetween(a, b, lat7) * EastBetween(a, b, lat7) < 1000 * 1000

\* C15: for a point within 5 km of the origin, the reference returned by
\* latLngToGridReference, converted back by gridReferenceToLatLng with the
\* same origin, origin reference and precision, is a point less than one
\* metre from the original point.
C15_GridRoundTrip ==
  kpc = "back" =>
    /\ back.t = "obj"
    /\ WithinOneMetre(Get(call.args, "point"), back,
                      Degrees7(Get(Get(call.args, "origin"), "lat")))

\* v is a position: an object whose lat and lng are finite numbers
IsPosition(v) ==
  v.t = "obj" /\ Get(v, "lat").t = "num" /\ Get(v, "lng").t = "num"

\* C16: destinationFromBearing fails without producing a position when the
\* origin is absent, when distanceMeters is negative, or when
\* bearingDegrees is not a finite number (absent, NaN or infinite); for
\* every other input with a distance that is a number it returns a
\* position.
C16_DestinationFailures ==
  kpc = "returned" /\ call.fn = "destinationFromBearing" =>
    LET distanceMeters == Get(call.args, "distanceMeters")
    IN IF \/ IsNullish(Get(call.args, "origin"))
          \/ (distanceMeters.t = "num" /\ distanceMeters.n < 0)
          \/ Get(call.args, "bearingDegrees").t # "num"
       THEN answer = Throw
       ELSE distanceMeters.t \in {"num", "inf"} => IsPosition(answer)

\* C17: calculateRelativeBearing(heading, targetBearing) returns absent
\* when either input is absent, and for every pair of present numeric
\* inputs returns (targetBearing - heading + 360) mod 360, a value v with
\* 0 <= v < 360.
C17_RelativeBearing ==
  kpc = "returned" /\ call.fn = "calculateRelativeBearing" =>
    LET heading == Get(call.args, "heading")
        bearing == Get(call.args, "bearing")
    IN IF IsNullish(heading) \/ IsNullish(bearing) THEN answer = Null
       ELSE LET e == IF heading.e > bearing.e THEN heading.e ELSE bearing.e
                sum == bearing.n * Pow10(e - bearing.e)
                       - heading.n * Pow10(e - heading.e) + 360 * Pow10(e)
            IN /\ answer.t = "num"
               /\ answer.n * Pow10(e - answer.e) = sum % (360 * Pow10(e))
               /\ 0 <= answer.n /\ answer.n < 360 * Pow10(answer.e)

\* C18: every entry point reports invalid input (invalid precision, bad
\* digit format, missing position or origin) as a returned failure or
\* absent value; no call raises an exception to its caller.
C18_NoExceptions ==
  /\ kpc = "returned" => answer # Throw
  /\ kpc = "back" => back # Throw

\* the first k bits of the bisection of [min, min + span] towards a
\* coordinate, offset = coordinate - min: 1 and the upper half when the
\* coordinate is at or above the midpoint, 0 and the lower half otherwise
RECURSIVE BisectionBits(_, _, _)
BisectionBits(offset, span, k) ==
  IF k = 0 THEN <<>>
  ELSE IF 2 * offset >= span THEN <<1>> \o BisectionBits(2 * offset - span, span, k - 1)
  ELSE <<0>> \o BisectionBits(2 * offset, span, k - 1)

\* bit i (from 0) of the standard geohash of p: longitude when i is even,
\* latitude when i is odd; coordinates in 10^-6 degree
GeohashBit(p, i) ==
  IF i % 2 = 0
  THEN BisectionBits(Get(p, "lng").n + 180000000, 360000000, i \div 2 + 1)[i \div 2 + 1]
  ELSE BisectionBits(Get(p, "lat").n + 90000000, 180000000, i \div 2 + 1)[i \div 2 + 1]

\* character j (from 1) of the standard geohash of p: five bits, most
\* significant first, index the alphabet "0123456789bcdefghjkmnpqrstuvwxyz"
GeohashCharacter(p, j) ==
  <<48, 49, 50, 51, 52, 53, 54, 55, 56, 57, 98, 99, 100, 101, 102, 103,
    104, 106, 107, 109, 110, 112, 113, 114, 115, 116, 117, 118, 119, 120,
    121, 122>>[
      16 * GeohashBit(p, 5 * j - 5) + 8 * GeohashBit(p, 5 * j - 4)
      + 4 * GeohashBit(p, 5 * j - 3) + 2 * GeohashBit(p, 5 * j - 2)
      + GeohashBit(p, 5 * j - 1) + 1]

ResolvedPrecision(args) ==
  Coalesce(Coalesce(Coalesce(Get(args, "precision"),
                             Get(Get(args, "originReference"), "precision")),
                    Get(Get(args, "targetReference"), "precision")),
           Num(3, 0))

\* metres east and north from the origin reference to the target reference
EastOffset(args) ==
  (StoredDigit(Get(Get(args, "targetReference"), "easting"))
   - StoredDigit(Get(Get(args, "originReference"), "easting")))
  * (IF ResolvedPrecision(args) = Num(3, 0) THEN 100 ELSE 10)

NorthOffset(args) ==
  (StoredDigit(Get(Get(args, "targetReference"), "northing"))
   - StoredDigit(Get(Get(args, "originReference"), "northing")))
  * (IF ResolvedPrecision(args) = Num(3, 0) THEN 100 ELSE 10)

\* C20: gridReferenceToLatLng projects from the origin by
\* eastOffset = (targetEasting - originEasting) * unit and
\* northOffset = (targetNorthing - originNorthing) * unit, unit being 100 m
\* at precision 3 and 10 m at precision 4: the returned point lies those
\* offsets east and north of the origin (to the centimetre per kilometre),
\* exactly 100 m east and 0 m north for a target one easting above the
\* origin reference at precision 3, and is the origin itself for a target
\* equal to the origin reference.
C20_GridProjection ==
  kpc = "returned" /\ call.fn = "gridReferenceToLatLng" /\ answer # Throw =>
    LET origin0 == Get(call.args, "origin")
        lat7 == Degrees7(Get(origin0, "lat"))
        east == EastOffset(call.args)
        north == NorthOffset(call.args)
    IN /\ answer = ProjectOffset(origin0, east, north)
       /\ Magnitude(NorthBetween(origin0, answer) - 1000 * north)
            <= 10 + Magnitude(north) \div 100
       /\ Magnitude(EastBetween(origin0, answer, lat7) - 1000 * east)
            <= 10 + Magnitude(east) \div 100
       /\ (east = 100 /\ north = 0) =>
            /\ Get(answer, "lat") = Get(origin0, "lat")
            /\ Magnitude(EastBetween(origin0, answer, lat7) - 100000) <= 10
       /\ (east = 0 /\ north = 0) => answer = origin0

\* origin (45, -75) with reference 500/500 at precision 3 and target
\* 501/500: a point east of the origin on the same latitude was returned
C20_Witness ==
  /\ kpc = "returned" /\ call.fn = "gridReferenceToLatLng"
  /\ Get(call.args, "origin")
       = Obj([lat |-> Num(450000000, 7), lng |-> Num(-750000000, 7)])
  /\ Get(call.args, "originReference")
       = Obj([easting |-> Num(500, 0), northing |-> Num(500, 0), precision |-> Num(3, 0)])
  /\ Get(call.args, "targetReference")
       = Obj([easting |-> Str(<<53, 48, 49>>), northing |-> Str(<<53, 48, 48>>),
              precision |-> Num(3, 0)])
  /\ IsPosition(answer)
  /\ Get(answer, "lat") = Num(450000000, 7)
  /\ Get(answer, "lng").n > -750000000

\* C21: the longitude of every position returned by destinationFromBearing
\* lies in (-180, 180]: strictly greater than -180 and at most 180.
C21_LongitudeRange ==
  kpc = "returned" /\ call.fn = "destinationFromBearing" /\ IsPosition(answer) =>
    /\ Degrees7(Get(answer, "lng")) > -1800000000
    /\ Degrees7(Get(answer, "lng")) <= 1800000000

\* C22: for every normalised snapshot, whatever its number of checkpoints,
\* the 16-bit field that encodeRouteShare writes at bytes 3-4 equals the
\* number of checkpoints, so the code passes the decoder's exact-length
\* check and decodes through the binary path with the same number of
\* checkpoints.
C22_CheckpointCount ==
  (pc = "encoded" /\ origin = "encode") =>
    LET count == Len(Elements(Get(NormaliseRouteShareSnapshot(snap), "checkpoints")))
        bytes == buffer
        decoded == DecodeBinaryRouteShare(code.s)
    IN /\ bytes[4] * 256 + bytes[5] = count
       /\ BufferFits(bytes)
       /\ decoded.t = "obj"
       /\ Len(Elements(Get(decoded, "checkpoints"))) = count

\* texts of exactly `figures` digits that a target reference may be typed as
TargetDigits(figures) ==
  { d \in {<<48, 49, 48>>, <<57, 57, 57>>, <<48, 48, 48, 49>>, <<49, 50, 51, 52>>} :
      Len(d) = figures }

\* C23: in every state of the grid store reached by locking origins typed as
\* digit strings of the detected precision and by switching the precision,
\* once an origin and an origin reference are stored, gridReferenceToLatLng
\* resolves every target reference of exactly `precision` digits: it does
\* not throw.
C23_StoredReferenceResolves ==
  (Truthy(gridStore.origin) /\ Truthy(gridStore.originReference)) =>
    \A targetEast \in TargetDigits(gridStore.precision.n),
       targetNorth \in TargetDigits(gridStore.precision.n) :
      GridReferenceToLatLng(
        Obj([origin |-> gridStore.origin,
             originReference |-> gridStore.originReference,
             targetReference |-> Obj([easting |-> Str(targetEast),
                                      northing |-> Str(targetNorth),
                                      precision |-> gridStore.precision]),
             precision |-> gridStore.precision])) # Throw


\* C24: a failed import retains the prior route: loadRouteSnapshot with a
\* snapshot that normaliseRouteShareSnapshot rejects leaves every field of
\* the store as it was, and handleShareImport leaves the store as it was
\* when decodeRouteShare returns absent.
C24_FailedImportRetainsRoute ==
  /\ \A snapshot \in {Null, Undef,
                      Obj([version |-> Num(2, 0),
                           start |-> Position(Num(45000000, 6), Num(-75000000, 6))])} :
       NormaliseRouteShareSnapshot(snapshot) = Null
         => LoadRouteSnapshot(routeStore, snapshot, <<>>) = routeStore
  /\ \A shareImportValue \in {<<110, 111, 116, 45, 97, 45, 99, 111, 100, 101>>} :
       ~Truthy(DecodeRouteShare(Str(Trim(shareImportValue))))
         => HandleShareImport(routeStore, shareImportValue, <<>>).routeStore = routeStore


\* a coordinate in millionths of a degree
Micro(v) == v.n * Pow10(6 - v.e)

\* both markers absent, or both present with positions within 1e-5 degrees
SameMarkerPlace(m, q) ==
  IF ~Truthy(m) \/ ~Truthy(q) THEN Truthy(m) = Truthy(q)
  ELSE /\ Abs(Micro(Get(Get(m, "position"), "lat")) - Micro(Get(Get(q, "position"), "lat"))) <= 10
       /\ Abs(Micro(Get(Get(m, "position"), "lng")) - Micro(Get(Get(q, "position"), "lng"))) <= 10

\* the route left in the store by importing the code that is shown for it
Reimported(state) ==
  HandleShareImport(state, ShareCode(state),
                    [i \in 1..Len(Elements(state.checkpoints)) |->
                       CreateId(<<99, 104, 101, 99, 107, 112, 111, 105, 110, 116>>, <<97>>)]).routeStore

\* C25: for every route of the store with at least one marker, importing the
\* share code shown for it gives a route with the same start and end
\* presence, as many checkpoints in the same order, every position within
\* 1e-5 degrees and the same connectVia: the share drops no marker.
C25_ShareKeepsEveryMarker ==
  (Truthy(routeStore.start) \/ Truthy(routeStore.end)
     \/ Len(Elements(routeStore.checkpoints)) > 0) =>
    LET reloaded == Reimported(routeStore)
        given == Elements(routeStore.checkpoints)
        result == Elements(reloaded.checkpoints)
    IN /\ SameMarkerPlace(reloaded.start, routeStore.start)
       /\ SameMarkerPlace(reloaded.end, routeStore.end)
       /\ Len(result) = Len(given)
       /\ \A i \in 1..Len(given) : SameMarkerPlace(result[i], given[i])
       /\ reloaded.connectVia = routeStore.connectVia


\* the ids createId('checkpoint') can give in the model
CheckpointIds ==
  {CreateId(<<99, 104, 101, 99, 107, 112, 111, 105, 110, 116>>, r) : r \in {<<97>>, <<98>>}}

\* C26: a placementMode that carries an insertIndex has it between 0 and the
\* number of checkpoints, and addCheckpoint with that insertIndex puts the
\* new checkpoint exactly there, keeps the others in their order, grows the
\* list by one and clears placementMode.
C26_InsertAtIndex ==
  LET insertIndex == Get(routeStore.placementMode, "insertIndex")
      checkpoints == Elements(routeStore.checkpoints)
  IN TypeofNumber(insertIndex) =>
       /\ insertIndex.t = "num" /\ insertIndex.e = 0
       /\ 0 <= insertIndex.n /\ insertIndex.n <= Len(checkpoints)
       /\ \A id \in CheckpointIds :
            LET place == Position(Num(45000000, 6), Num(-75000000, 6))
                next == AddCheckpoint(routeStore, place, insertIndex, id)
                grown == Elements(next.checkpoints)
            IN /\ Len(grown) = Len(checkpoints) + 1
               /\ grown[insertIndex.n + 1] = Obj([id |-> id, position |-> place])
               /\ \A i \in 1..Len(checkpoints) :
                    grown[IF i <= insertIndex.n THEN i ELSE i + 1] = checkpoints[i]
               /\ next.placementMode = Null
               /\ next.start = routeStore.start /\ next.end = routeStore.end
               /\ next.connectVia = routeStore.connectVia

\* addCheckpoint has just put a checkpoint in front of an existing one
C26_Witness ==
  /\ routeOp = [fn |-> "addCheckpoint", insertIndex |-> Num(0, 0)]
  /\ Len(Elements(routeStore.checkpoints)) = 2
  /\ routeStore.placementMode = Null
  /\ routeStore.selectedId = Get(Elements(routeStore.checkpoints)[1], "id")
  /\ Elements(routeStore.checkpoints)[1] # Elements(routeStore.checkpoints)[2]


\* C27: selectedId is null or the id of a marker of the route: 'start' only
\* while start is set, 'end' only while end is set, otherwise the id of a
\* checkpoint in the list.
C27_SelectedIdNamesMarker ==
  LET checkpoints == Elements(routeStore.checkpoints)
      selectedId == routeStore.selectedId
  IN \/ selectedId = Null
     \/ selectedId = Str(<<115, 116, 97, 114, 116>>) /\ Truthy(routeStore.start)
     \/ selectedId = Str(<<101, 110, 100>>) /\ Truthy(routeStore.end)
     \/ \E i \in 1..Len(checkpoints) : Get(checkpoints[i], "id") = selectedId

\* a checkpoint of a list of two was selected in the list, and it is the
\* first of the two
C27_Witness ==
  /\ Len(Elements(routeStore.checkpoints)) = 2
  /\ routeStore.selectedId = Get(Elements(routeStore.checkpoints)[1], "id")
  /\ routeStore.selectedId # Get(Elements(routeStore.checkpoints)[2], "id")
  /\ Truthy(routeStore.start)
  /\ routeOp = [fn |-> "set"]

\* the markers of a route in display order: start, the checkpoints, end
Slots(state) == <<state.start>> \o Elements(state.checkpoints) \o <<state.end>>

\* the place in Slots of the marker that an id names, 0 when it names none
SlotOf(state, id) ==
  IF id = Str(<<115, 116, 97, 114, 116>>)
  THEN (IF Truthy(state.start) THEN 1 ELSE 0)
  ELSE IF id = Str(<<101, 110, 100>>)
  THEN (IF Truthy(state.end) THEN Len(Elements(state.checkpoints)) + 2 ELSE 0)
  ELSE IF FindIndex(Elements(state.checkpoints), id) = 0 THEN 0
  ELSE FindIndex(Elements(state.checkpoints), id) + 1

\* C28: swapCheckpoints(id1, id2) on two existing markers exchanges their two
\* positions and nothing else: ids, count, order, selectedId, connectVia,
\* placementMode and the other markers stay, and the same swap again gives
\* the original state back; with an id that names no marker the state is
\* unchanged.
C28_SwapExchangesPositions ==
  LET checkpoints == Elements(routeStore.checkpoints)
      ids == {Get(checkpoints[i], "id") : i \in 1..Len(checkpoints)}
               \cup {Str(<<115, 116, 97, 114, 116>>), Str(<<101, 110, 100>>), Str(<<120>>)}
  IN \A id1 \in ids, id2 \in ids :
       LET next == SwapCheckpoints(routeStore, id1, id2)
           s1 == SlotOf(routeStore, id1)
           s2 == SlotOf(routeStore, id2)
           before == Slots(routeStore)
           after == Slots(next)
       IN IF s1 = 0 \/ s2 = 0 THEN next = routeStore
          ELSE /\ Len(after) = Len(before)
               /\ \A k \in 1..Len(before) :
                    IF k \in {s1, s2}
                    THEN /\ Get(after[k], "id") = Get(before[k], "id")
                         /\ DOMAIN after[k].f = DOMAIN before[k].f
                    ELSE after[k] = before[k]
               /\ Get(after[s1], "position") = Get(before[s2], "position")
               /\ Get(after[s2], "position") = Get(before[s1], "position")
               /\ next.selectedId = routeStore.selectedId
               /\ next.connectVia = routeStore.connectVia
               /\ next.placementMode = routeStore.placementMode
               /\ SwapCheckpoints(next, id1, id2) = routeStore

\* swapCheckpoints has just exchanged the different positions of the start
\* and of a checkpoint
C28_Witness ==
  /\ routeOp = [fn |-> "swapCheckpoints"]
  /\ Truthy(routeStore.start)
  /\ Len(Elements(routeStore.checkpoints)) = 2
  /\ Get(routeStore.start, "position") # Get(Elements(routeStore.checkpoints)[1], "position")
  /\ Get(Elements(routeStore.checkpoints)[1], "position")
       # Get(Elements(routeStore.checkpoints)[2], "position")


\* the workers of a run that hold the tile between shift() and the end of
\* its fetch and cache write
HoldersOf(run, tile) ==
  {w \in 1..Len(run.workers) :
     run.workers[w].pc \in {"fetch", "put"} /\ run.workers[w].tile = tile}

\* what holds of a caching run at every moment
TileRunInvariant(run) ==
  /\ \A tile \in 1..run.tiles :
       /\ run.fetches[tile] <= 1
       /\ Cardinality(HoldersOf(run, tile)) <= 1
       /\ HoldersOf(run, tile) # {} => run.fetches[tile] = 1
  /\ Cardinality({w \in 1..Len(run.workers) : run.workers[w].pc = "fetch"})
       <= MAX_TILE_FETCH_CONCURRENCY
  /\ (/\ Len(run.workers) > 0
      /\ \A w \in 1..Len(run.workers) : run.workers[w].pc = "returned")
       => /\ run.successCount + run.errors = run.tiles
          /\ \A tile \in 1..run.tiles : run.fetches[tile] = 1

ActiveRuns == {r \in 1..Len(runs) : runs[r].pc # "done"}

\* C30: isCaching is true as long as a tile-caching run is in progress, so
\* that the cache action stays disabled, and at most one caching run is
\* active at any time, whatever base-layer changes and cache requests come
\* while a run is under way.
C30_OneRunAtATime ==
  /\ ActiveRuns # {} => isCaching
  /\ ActiveRuns # {} => (baseLayer # "satellite" \/ isCaching)
  /\ Cardinality(ActiveRuns) <= 1

====
